---- MODULE Spec2Model ----
(***************************************************************************)
(* The interactive tree editor of prefer-cli (src/src/tui): the tree       *)
(* model, its flattened projection, navigation, the edit buffer, the       *)
(* modal input dispatcher, search and save, as a state machine whose       *)
(* steps are the key events of the control loop.                           *)
(*                                                                         *)
(* Conventions.  A text (Rust String) is a sequence of one-character       *)
(* strings; only ASCII characters occur, so byte and character indices     *)
(* coincide.  Indices (rows, paths, cursor columns) are 0-based as in the  *)
(* source; the i-th element (0-based) of a sequence s is s[i + 1].  An     *)
(* Option is a sequence of length 0 (None) or 1 (Some).                    *)
(***************************************************************************)
EXTENDS Integers, Sequences, FiniteSets, TLC

VARIABLES
    root,            \* App.root: the document tree
    cursor,          \* App.cursor: selected, cursor_on_value, cursor_pos
    edit,            \* App.edit: buffer, cursor, editing_key, word_range, original
    search,          \* App.search: query, results, index
    operator,        \* App.operator: pending_op, motion
    ui_state,        \* App.ui_state: "Normal" | "Command" | "Edit"
    command_buffer,  \* App.command_buffer
    show_help,       \* App.show_help
    message,         \* App.message
    input_mode,      \* App.input_mode: "Vi" | "Basic"
    dirty,           \* App.dirty
    running,         \* FALSE once run_app has returned
    backend,         \* the calls of ConfigBackend::set made so far
    call,            \* a library function applied on its own: its name and arguments
    result           \* what that application returned

vars == <<root, cursor, edit, search, operator, ui_state, command_buffer,
          show_help, message, input_mode, dirty, running, backend, call, result>>

None == <<>>
Some(x) == <<x>>

(***************************************************************************)
(* Characters and texts                                                    *)
(***************************************************************************)
Digits == <<"0", "1", "2", "3", "4", "5", "6", "7", "8", "9">>
Lowers == <<"a", "b", "c", "d", "e", "f", "g", "h", "i", "j", "k", "l", "m",
            "n", "o", "p", "q", "r", "s", "t", "u", "v", "w", "x", "y", "z">>
Uppers == <<"A", "B", "C", "D", "E", "F", "G", "H", "I", "J", "K", "L", "M",
            "N", "O", "P", "Q", "R", "S", "T", "U", "V", "W", "X", "Y", "Z">>
\* The printable ASCII characters in code order: 32 (space) to 95 (_), then
\* 97 (a) to 122 (z), then 123 ({) to 126 (~).
Ascii32 == <<" ", "!", "\"", "#", "$", "%", "&", "'", "(", ")", "*", "+", ",",
             "-", ".", "/">> \o Digits \o <<":", ";", "<", "=", ">", "?", "@">>
           \o Uppers \o <<"[", "\\", "]", "^", "_">>
Ascii123 == <<"{", "|", "}", "~">>

Range(s) == {s[i] : i \in 1..Len(s)}
IndexIn(s, c) == CHOOSE i \in 1..Len(s) : s[i] = c

IsDigit(c) == c \in Range(Digits)
DigitVal(c) == IndexIn(Digits, c) - 1
IsUpper(c) == c \in Range(Uppers)
IsAlphanumeric(c) == c \in Range(Digits) \cup Range(Lowers) \cup Range(Uppers)

\* The byte value of a character: String::cmp compares byte by byte.
OrdTable ==
    [c \in Range(Ascii32) \cup Range(Lowers) \cup Range(Ascii123) |->
        IF c \in Range(Ascii32) THEN IndexIn(Ascii32, c) + 31
        ELSE IF c \in Range(Lowers) THEN IndexIn(Lowers, c) + 96
        ELSE IndexIn(Ascii123, c) + 122]
Ord(c) == OrdTable[c]

LowerOfChar(c) == IF IsUpper(c) THEN Lowers[IndexIn(Uppers, c)] ELSE c
to_lowercase(s) == [i \in 1..Len(s) |-> LowerOfChar(s[i])]

\* a.cmp(b) for texts: -1, 0, 1.
RECURSIVE StrCmp(_, _)
StrCmp(a, b) ==
    IF a = <<>> THEN (IF b = <<>> THEN 0 ELSE -1)
    ELSE IF b = <<>> THEN 1
    ELSE IF Ord(Head(a)) < Ord(Head(b)) THEN -1
    ELSE IF Ord(Head(a)) > Ord(Head(b)) THEN 1
    ELSE StrCmp(Tail(a), Tail(b))

\* haystack.contains(needle)
Contains(hay, needle) ==
    \E i \in 0..(Len(hay) - Len(needle)) :
        SubSeq(hay, i + 1, i + Len(needle)) = needle

\* chars[from..to] (0-based, to exclusive)
Slice(s, from, to) == SubSeq(s, from + 1, to)

Min(a, b) == IF a < b THEN a ELSE b
\* a.saturating_sub(b) on usize
SatSub(a, b) == IF a > b THEN a - b ELSE 0

RECURSIVE NatToText(_)
NatToText(n) ==
    IF n < 10 THEN <<Digits[n + 1]>>
    ELSE NatToText(n \div 10) \o <<Digits[(n % 10) + 1]>>

RECURSIVE Zeros(_)
Zeros(n) == IF n <= 0 THEN <<>> ELSE <<"0">> \o Zeros(n - 1)

AllDigits(s) == \A i \in 1..Len(s) : IsDigit(s[i])

RECURSIVE DigitsVal(_)
DigitsVal(s) ==
    IF s = <<>> THEN 0 ELSE 10 * DigitsVal(SubSeq(s, 1, Len(s) - 1)) + DigitVal(s[Len(s)])

\* How many "0" s[lo..hi] starts with (by halves: a text may be long)
RECURSIVE ZerosAhead(_, _, _)
ZerosAheadMore(s, mid, hi, n, full) == IF n = full THEN n + ZerosAhead(s, mid + 1, hi) ELSE n
ZerosAhead(s, lo, hi) ==
    IF lo > hi THEN 0
    ELSE IF lo = hi THEN (IF s[lo] = "0" THEN 1 ELSE 0)
    ELSE ZerosAheadMore(s, (lo + hi) \div 2, hi, ZerosAhead(s, lo, (lo + hi) \div 2),
                        ((lo + hi) \div 2) - lo + 1)
\* ... and ends with
RECURSIVE ZerosBehind(_, _, _)
ZerosBehindMore(s, lo, mid, n, full) == IF n = full THEN n + ZerosBehind(s, lo, mid) ELSE n
ZerosBehind(s, lo, hi) ==
    IF lo > hi THEN 0
    ELSE IF lo = hi THEN (IF s[lo] = "0" THEN 1 ELSE 0)
    ELSE ZerosBehindMore(s, lo, (lo + hi) \div 2, ZerosBehind(s, ((lo + hi) \div 2) + 1, hi),
                         hi - ((lo + hi) \div 2))

StripZeros(s) == SubSeq(s, ZerosAhead(s, 1, Len(s)) + 1, Len(s))

(***************************************************************************)
(* Numbers as the standard library reads and prints them                   *)
(***************************************************************************)
I64MaxText == <<"9","2","2","3","3","7","2","0","3","6","8","5","4","7","7","5","8","0","7">>
I64MinText == <<"9","2","2","3","3","7","2","0","3","6","8","5","4","7","7","5","8","0","8">>

\* <i64 as ToString>::to_string
i64_to_string(i) == IF i < 0 THEN <<"-">> \o NatToText(-i) ELSE NatToText(i)

\* str::parse::<i64>: an optional sign, then one or more digits, in range.
\* None on failure, Some(value) otherwise.
parse_i64(s) ==
    LET signed == s # <<>> /\ Head(s) \in {"+", "-"}
        neg == s # <<>> /\ Head(s) = "-"
        ds == IF signed THEN Tail(s) ELSE s
        sig == StripZeros(ds)
        lim == IF neg THEN I64MinText ELSE I64MaxText
        fits == Len(sig) < Len(lim) \/ (Len(sig) = Len(lim) /\ StrCmp(sig, lim) <= 0)
    IN  IF ds # <<>> /\ AllDigits(ds) /\ fits
        THEN Some(IF neg THEN -DigitsVal(sig) ELSE DigitsVal(sig))
        ELSE None

\* An f64 is kept as the decimal that Display prints for it, the shortest one
\* that reads back: cls "finite" with neg, mant, exp meaning
\* (-1)^neg * mant * 10^exp, mant the digits as a text without leading zeros
\* and not ending in "0" ("0" with exp = 0 for zero); or cls "inf" with neg;
\* or cls "nan".  Two f64 are equal iff their records are.
FInf(neg) == [cls |-> "inf", neg |-> neg]
FNaN == [cls |-> "nan"]
FZero(neg) == [cls |-> "finite", neg |-> neg, mant |-> <<"0">>, exp |-> 0]

\* The first index (1-based) at which s holds a character of set cs, or
\* Len(s) + 1.
FirstOf(s, cs) ==
    IF \E i \in 1..Len(s) : s[i] \in cs
    THEN CHOOSE i \in 1..Len(s) : s[i] \in cs /\ \A j \in 1..(i - 1) : s[j] \notin cs
    ELSE Len(s) + 1

StripTrailingZeros(s) == SubSeq(s, 1, Len(s) - ZerosBehind(s, 1, Len(s)))

\* The value of the digits of an exponent as dec2flt accumulates it: a digit
\* is taken in only while the value so far is below 0x10000 (65536), so the
\* digits that follow a value of 65536 or more are read and dropped.
RECURSIVE ExponentFrom(_, _)
ExponentFrom(ds, exponent) ==
    IF ds = <<>> THEN exponent
    ELSE ExponentFrom(Tail(ds), IF exponent < 65536 THEN 10 * exponent + DigitVal(Head(ds))
                                ELSE exponent)
ExponentVal(ds) == ExponentFrom(ds, 0)

(***************************************************************************)
(* Natural numbers of any size, for the exact arithmetic of f64: the limbs *)
(* in base 10^4, the lowest first, no zero limb at the top; <<>> is 0.     *)
(***************************************************************************)
RECURSIVE BigTrim(_)
BigTrim(a) == IF a # <<>> /\ a[Len(a)] = 0 THEN BigTrim(SubSeq(a, 1, Len(a) - 1)) ELSE a

BigOfNat(n) == BigTrim(<<n % 10000, n \div 10000>>)

\* The number written by the digits ds
RECURSIVE BigOfDigits(_)
BigOfDigits(ds) ==
    IF Len(ds) <= 4 THEN BigTrim(<<DigitsVal(ds)>>)
    ELSE BigTrim(<<DigitsVal(SubSeq(ds, Len(ds) - 3, Len(ds)))>>
                 \o BigOfDigits(SubSeq(ds, 1, Len(ds) - 4)))

RECURSIVE BigCmpFrom(_, _, _)
BigCmpFrom(a, b, i) ==
    IF i = 0 THEN 0
    ELSE IF a[i] < b[i] THEN -1
    ELSE IF a[i] > b[i] THEN 1
    ELSE BigCmpFrom(a, b, i - 1)
\* -1, 0, 1 as a < b, a = b, a > b
BigCmp(a, b) ==
    IF Len(a) < Len(b) THEN -1
    ELSE IF Len(a) > Len(b) THEN 1
    ELSE BigCmpFrom(a, b, Len(a))

BigLimb(a, i) == IF i <= Len(a) THEN a[i] ELSE 0

RECURSIVE BigAddFrom(_, _, _, _)
BigAddFrom(a, b, i, carry) ==
    IF i > Len(a) /\ i > Len(b)
    THEN (IF carry = 0 THEN <<>> ELSE <<carry>>)
    ELSE <<(BigLimb(a, i) + BigLimb(b, i) + carry) % 10000>>
         \o BigAddFrom(a, b, i + 1, (BigLimb(a, i) + BigLimb(b, i) + carry) \div 10000)
BigAdd(a, b) == BigAddFrom(a, b, 1, 0)

\* a - b for a >= b
RECURSIVE BigSubFrom(_, _, _, _)
BigSubFrom(a, b, i, borrow) ==
    IF i > Len(a) THEN <<>>
    ELSE <<(a[i] - BigLimb(b, i) - borrow + 10000) % 10000>>
         \o BigSubFrom(a, b, i + 1, IF a[i] - BigLimb(b, i) - borrow < 0 THEN 1 ELSE 0)
BigSub(a, b) == BigTrim(BigSubFrom(a, b, 1, 0))

\* a * k for 0 <= k <= 10^4
RECURSIVE BigMulFrom(_, _, _, _)
BigMulFrom(a, k, i, carry) ==
    IF i > Len(a) THEN (IF carry = 0 THEN <<>> ELSE <<carry>>)
    ELSE <<(a[i] * k + carry) % 10000>>
         \o BigMulFrom(a, k, i + 1, (a[i] * k + carry) \div 10000)
BigMulSmall(a, k) == IF k = 0 THEN <<>> ELSE BigMulFrom(a, k, 1, 0)

\* a * 2^n
RECURSIVE BigMulPow2(_, _)
BigMulPow2(a, n) ==
    IF n <= 0 THEN a
    ELSE IF n >= 13 THEN BigMulPow2(BigMulSmall(a, 8192), n - 13)
    ELSE BigMulSmall(a, 2^n)

\* a * 10^n
BigMulPow10(a, n) ==
    IF a = <<>> \/ n <= 0 THEN a
    ELSE [i \in 1..(n \div 4) |-> 0] \o BigMulSmall(a, 10^(n % 4))

\* n divided by d, the quotient below 10^(i + 1): quotient q and remainder r,
\* found digit by digit from the place 10^i down.
RECURSIVE BigDivFrom(_, _, _, _)
RECURSIVE BigDivPlace(_, _, _, _, _, _)
BigDivPlace(n, d, t, i, q, c) ==
    IF BigCmp(n, t) < 0
    THEN BigDivFrom(n, d, i - 1, BigAdd(BigMulSmall(q, 10), BigOfNat(c)))
    ELSE BigDivPlace(BigSub(n, t), d, t, i, q, c + 1)
BigDivFrom(n, d, i, q) ==
    IF i < 0 THEN [q |-> q, r |-> n]
    ELSE BigDivPlace(n, d, BigMulPow10(d, i), i, q, 0)
BigDiv(n, d) == BigDivFrom(n, d, 19, <<>>)

(***************************************************************************)
(* f64: a finite one that is not zero is m * 2^e with m < 2^53 and         *)
(* -1074 <= e <= 971, m >= 2^52 unless e = -1074 (the subnormals).         *)
(***************************************************************************)
Pos(n) == IF n > 0 THEN n ELSE 0

\* D * 10^k / 2^e as a fraction F64Num / F64Den
F64Num(D, k, e) == BigMulPow2(BigMulPow10(D, Pos(k)), Pos(-e))
F64Den(k, e) == BigMulPow2(BigMulPow10(<<1>>, Pos(-k)), Pos(e))

\* An e not above the one of the f64 nearest to a decimal of the given
\* order (first digit at 10^order), from 3.321928 < log2(10).
F64LowE(order) ==
    LET e == ((order * 3321928) \div 1000000) - 53
    IN  IF e < -1074 THEN -1074 ELSE e

\* By how much q is too long for 53 bits
F64Excess(q) == Cardinality({j \in 0..7 : BigCmp(q, BigMulPow2(<<1>>, 53 + j)) >= 0})

\* m for the quotient and remainder qr of a division by den: to the nearest,
\* a tie to the even one.
F64RoundM(qr, den) ==
    IF \/ BigCmp(BigMulSmall(qr.r, 2), den) > 0
       \/ (BigCmp(BigMulSmall(qr.r, 2), den) = 0 /\ BigLimb(qr.q, 1) % 2 = 1)
    THEN BigAdd(qr.q, <<1>>)
    ELSE qr.q

\* [m, e] with m kept below 2^53
F64Carry(m, e) ==
    IF BigCmp(m, BigMulPow2(<<1>>, 53)) = 0
    THEN [m |-> BigMulPow2(<<1>>, 52), e |-> e + 1]
    ELSE [m |-> m, e |-> e]

F64AtE(D, k, e) ==
    F64Carry(F64RoundM(BigDiv(F64Num(D, k, e), F64Den(k, e)), F64Den(k, e)), e)

\* The f64 nearest to D * 10^k, D of digits that start at 10^order, as
\* [m, e]: m = <<>> for zero, e > 971 for one beyond the range.
F64Nearest(D, k, order) ==
    F64AtE(D, k, F64LowE(order)
                 + F64Excess(BigDiv(F64Num(D, k, F64LowE(order)),
                                    F64Den(k, F64LowE(order))).q))

\* The shortest digits that read back as m * 2^e (flt2dec's shortest mode):
\* with R / S the value scaled to below 10, lo / S and hi / S the distances
\* to the middles between it and its lower and upper neighbour, one digit is
\* taken at a time until what is left is within one of the distances
\* (the middles count when m is even), then the last digit is rounded.
\* The result is the digits and the k with value = 0.digits * 10^k.
RECURSIVE IncDigits(_)
IncDigits(ds) ==
    IF ds = <<>> THEN <<"1">>
    ELSE IF ds[Len(ds)] = "9" THEN IncDigits(SubSeq(ds, 1, Len(ds) - 1)) \o <<"0">>
    ELSE SubSeq(ds, 1, Len(ds) - 1) \o <<Digits[DigitVal(ds[Len(ds)]) + 2]>>

\* a <= b when incl, a < b otherwise
BigBelow(a, b, incl) == IF incl THEN BigCmp(a, b) <= 0 ELSE BigCmp(a, b) < 0

RECURSIVE ShortestFrom(_, _, _, _, _, _, _)
RECURSIVE ShortestPlace(_, _, _, _, _, _, _, _)
ShortestEnd(R, S, down, up, incl, ds, k) ==
    IF up /\ (~down \/ BigCmp(BigMulSmall(R, 2), S) >= 0)
    THEN [digits |-> IncDigits(ds),
          k |-> IF Len(IncDigits(ds)) > Len(ds) THEN k + 1 ELSE k]
    ELSE [digits |-> ds, k |-> k]
ShortestPlace(R, S, lo, hi, incl, ds, k, c) ==
    IF BigCmp(R, S) >= 0 THEN ShortestPlace(BigSub(R, S), S, lo, hi, incl, ds, k, c + 1)
    ELSE IF BigBelow(R, lo, incl) \/ BigBelow(S, BigAdd(R, hi), incl)
    THEN ShortestEnd(R, S, BigBelow(R, lo, incl), BigBelow(S, BigAdd(R, hi), incl),
                     incl, Append(ds, Digits[c + 1]), k)
    ELSE ShortestFrom(BigMulSmall(R, 10), S, BigMulSmall(lo, 10), BigMulSmall(hi, 10),
                      incl, Append(ds, Digits[c + 1]), k)
ShortestFrom(R, S, lo, hi, incl, ds, k) == ShortestPlace(R, S, lo, hi, incl, ds, k, 0)

\* The scaling: x a number v times 2^b, as x * 10^(-k) = ShortNum / ShortDen
ShortNum(v, b, k) == BigMulPow10(BigMulPow2(v, Pos(b)), Pos(-k))
ShortDen(b, k) == BigMulPow10(BigMulPow2(<<1>>, Pos(-b)), Pos(k))

\* The least k from k0 on with value + hi below 10^k (not above, when the
\* middle does not count)
RECURSIVE ShortestK(_, _, _, _, _)
ShortestK(v, hi, b, incl, k) ==
    IF BigBelow(ShortDen(b, k), ShortNum(BigAdd(v, hi), b, k), incl)
    THEN ShortestK(v, hi, b, incl, k + 1)
    ELSE k

\* v * 2^b with the neighbours' middles at (v - lo) * 2^b and (v + hi) * 2^b
ShortestScaled(v, lo, hi, b, incl, k) ==
    ShortestFrom(BigMulSmall(ShortNum(v, b, k), 10), ShortDen(b, k),
                 BigMulSmall(ShortNum(lo, b, k), 10), BigMulSmall(ShortNum(hi, b, k), 10),
                 incl, <<>>, k)

\* flt2dec::decode: below m = 2^52 of a normal f64 the lower neighbour is
\* half as far as the upper one.
F64Shortest(m, e, k0) ==
    IF BigCmp(m, BigMulPow2(<<1>>, 52)) = 0
    THEN ShortestScaled(BigMulSmall(m, 4), <<1>>, <<2>>, e - 2, m[1] % 2 = 0,
                        ShortestK(BigMulSmall(m, 4), <<2>>, e - 2, m[1] % 2 = 0, k0))
    ELSE ShortestScaled(BigMulSmall(m, 2), <<1>>, <<1>>, e - 1, m[1] % 2 = 0,
                        ShortestK(BigMulSmall(m, 2), <<1>>, e - 1, m[1] % 2 = 0, k0))

\* The record of 0.digits * 10^k
F64OfShortest(neg, s) ==
    [cls |-> "finite", neg |-> neg, mant |-> StripTrailingZeros(s.digits),
     exp |-> s.k - Len(s.digits) + (Len(s.digits) - Len(StripTrailingZeros(s.digits)))]

F64OfBinary(neg, f, order) ==
    IF f.m = <<>> THEN FZero(neg)
    ELSE IF f.e > 971 THEN FInf(neg)
    ELSE F64OfShortest(neg, F64Shortest(f.m, f.e, order))

\* The f64 nearest to (-1)^neg * sig * 10^(order - Len(sig) + 1), sig the
\* significant digits without leading and trailing zeros.  Beyond 10^310
\* it is infinity and below 10^-325 zero; a decimal of at most 15 digits
\* from 10^-307 to 10^308 is itself the shortest that reads back as the f64
\* nearest to it.
F64Rounded(neg, sig, order) ==
    IF sig = <<>> THEN FZero(neg)
    ELSE IF order >= 310 THEN FInf(neg)
    ELSE IF order <= -326 THEN FZero(neg)
    ELSE IF Len(sig) <= 15 /\ order >= -307 /\ order <= 307
    THEN [cls |-> "finite", neg |-> neg, mant |-> sig, exp |-> order - Len(sig) + 1]
    ELSE F64OfBinary(neg, F64Nearest(BigOfDigits(sig), order - Len(sig) + 1, order), order)
\* ... to the digits leading (no leading zeros) times 10^exp
F64Decimal(neg, leading, exp) ==
    F64Rounded(neg, StripTrailingZeros(leading), Len(leading) + exp - 1)

\* str::parse::<f64>: Sign? ( "inf" | "infinity" | "nan" | Number ), the words
\* in any letter case, Number = (Digit+ | Digit+ "." Digit* | Digit* "." Digit+)
\* with an optional exponent ("e" | "E") Sign? Digit+.  The value is the
\* f64 nearest to the decimal, a tie going to the one with an even m:
\* infinity beyond the range, zero below it.
parse_f64(s) ==
    LET signed == s # <<>> /\ Head(s) \in {"+", "-"}
        neg == s # <<>> /\ Head(s) = "-"
        body == IF signed THEN Tail(s) ELSE s
        low == to_lowercase(body)
        ePos == FirstOf(low, {"e"})
        num == SubSeq(low, 1, ePos - 1)
        hasExp == ePos <= Len(low)
        expPart == SubSeq(low, ePos + 1, Len(low))
        expSigned == expPart # <<>> /\ Head(expPart) \in {"+", "-"}
        expNeg == expPart # <<>> /\ Head(expPart) = "-"
        expDigits == IF expSigned THEN Tail(expPart) ELSE expPart
        dot == FirstOf(num, {"."})
        intPart == SubSeq(num, 1, dot - 1)
        fracPart == SubSeq(num, dot + 1, Len(num))
        numOk == /\ AllDigits(intPart) /\ AllDigits(fracPart)
                 /\ Len(intPart) + Len(fracPart) > 0
        expOk == ~hasExp \/ (expDigits # <<>> /\ AllDigits(expDigits))
        e == IF hasExp THEN (IF expNeg THEN -ExponentVal(expDigits) ELSE ExponentVal(expDigits))
             ELSE 0
    IN  IF low \in {<<"i","n","f">>, <<"i","n","f","i","n","i","t","y">>}
        THEN Some(FInf(neg))
        ELSE IF low = <<"n","a","n">> THEN Some(FNaN)
        ELSE IF numOk /\ expOk
        THEN Some(F64Decimal(neg, StripZeros(intPart \o fracPart), e - Len(fracPart)))
        ELSE None

\* <f64 as ToString>::to_string: Display prints the shortest decimal that
\* reads back, without an exponent and without a trailing ".0".
f64_to_string(f) ==
    IF f.cls = "nan" THEN <<"N","a","N">>
    ELSE IF f.cls = "inf"
    THEN (IF f.neg THEN <<"-">> ELSE <<>>) \o <<"i","n","f">>
    ELSE LET d == f.mant
             n == -f.exp
             mag == IF f.exp >= 0 THEN d \o Zeros(f.exp)
                    ELSE IF Len(d) > n
                    THEN SubSeq(d, 1, Len(d) - n) \o <<".">> \o SubSeq(d, Len(d) - n + 1, Len(d))
                    ELSE <<"0", ".">> \o Zeros(n - Len(d)) \o d
         IN  (IF f.neg THEN <<"-">> ELSE <<>>) \o mag

(***************************************************************************)
(* The hierarchical value exchanged with the backend (prefer::ConfigValue) *)
(* An Object holds a map from key texts to values: a function, <<>> when   *)
(* empty.                                                                  *)
(***************************************************************************)
CNull == [kind |-> "Null"]
CBool(b) == [kind |-> "Bool", b |-> b]
CInteger(i) == [kind |-> "Integer", i |-> i]
CFloat(f) == [kind |-> "Float", f |-> f]
CString(s) == [kind |-> "String", s |-> s]
CArray(items) == [kind |-> "Array", items |-> items]
CObject(map) == [kind |-> "Object", map |-> map]

(***************************************************************************)
(* Tree model (tree.rs)                                                    *)
(***************************************************************************)
VNull == [kind |-> "Null"]
VBool(b) == [kind |-> "Bool", b |-> b]
VNumber(n) == [kind |-> "Number", text |-> n]
VString(s) == [kind |-> "String", text |-> s]
VArray(children) == [kind |-> "Array", children |-> children]
VObject(children) == [kind |-> "Object", children |-> children]

TreeNode(key, value, expanded, depth) ==
    [key |-> key, value |-> value, expanded |-> expanded, depth |-> depth]

\* format!("[{}]", i)
IndexKey(i) == <<"[">> \o NatToText(i) \o <<"]">>

RECURSIVE SeqOfSet(_)
SeqOfSet(S) ==
    IF S = {} THEN <<>>
    ELSE LET x == CHOOSE x \in S : TRUE IN <<x>> \o SeqOfSet(S \ {x})

\* children.sort_by(|a, b| a.key.cmp(&b.key)): a stable sort.
RECURSIVE sort_by_key(_)
sort_by_key(children) ==
    IF children = <<>> THEN <<>>
    ELSE LET last == children[Len(children)]
             front == sort_by_key(SubSeq(children, 1, Len(children) - 1))
             \* the elements of front that stay before last: those with key <= last.key
             n == Cardinality({i \in 1..Len(front) : StrCmp(front[i].key, last.key) <= 0})
         IN  SubSeq(front, 1, n) \o <<last>> \o SubSeq(front, n + 1, Len(front))

RECURSIVE from_config_value(_, _, _)
from_config_value(key, value, depth) ==
    LET node_value ==
            CASE value.kind = "Null" -> VNull
              [] value.kind = "Bool" -> VBool(value.b)
              [] value.kind = "Integer" -> VNumber(i64_to_string(value.i))
              [] value.kind = "Float" -> VNumber(f64_to_string(value.f))
              [] value.kind = "String" -> VString(value.s)
              [] value.kind = "Array" ->
                    VArray([i \in 1..Len(value.items) |->
                               from_config_value(IndexKey(i - 1), value.items[i], depth + 1)])
              [] value.kind = "Object" ->
                    LET ks == SeqOfSet(DOMAIN value.map)
                    IN  VObject(sort_by_key(
                            [i \in 1..Len(ks) |->
                                from_config_value(ks[i], value.map[ks[i]], depth + 1)]))
    IN  TreeNode(key, node_value, depth < 2, depth)

RECURSIVE to_config_value(_)
to_config_value(node) ==
    LET v == node.value IN
    CASE v.kind = "Null" -> CNull
      [] v.kind = "Bool" -> CBool(v.b)
      [] v.kind = "Number" ->
            IF parse_i64(v.text) # None THEN CInteger(parse_i64(v.text)[1])
            ELSE IF parse_f64(v.text) # None THEN CFloat(parse_f64(v.text)[1])
            ELSE CString(v.text)
      [] v.kind = "String" -> CString(v.text)
      [] v.kind = "Array" ->
            CArray([i \in 1..Len(v.children) |-> to_config_value(v.children[i])])
      [] v.kind = "Object" ->
            \* collect() into a HashMap: a later child replaces an earlier one
            \* with the same key
            LET cs == v.children
                LastWith(k) == CHOOSE i \in 1..Len(cs) :
                                  /\ cs[i].key = k
                                  /\ \A j \in (i + 1)..Len(cs) : cs[j].key # k
            IN  CObject([k \in {cs[i].key : i \in 1..Len(cs)} |->
                            to_config_value(cs[LastWith(k)])])

is_expandable(node) == node.value.kind \in {"Array", "Object"}
is_editable(node) == node.value.kind \in {"Null", "Bool", "Number", "String"}

BoolText(b) == IF b THEN <<"t","r","u","e">> ELSE <<"f","a","l","s","e">>
NullText == <<"n","u","l","l">>

\* Option<String>
editable_value(node) ==
    CASE node.value.kind = "Null" -> Some(NullText)
      [] node.value.kind = "Bool" -> Some(BoolText(node.value.b))
      [] node.value.kind \in {"Number", "String"} -> Some(node.value.text)
      [] OTHER -> None

\* set_value_from_string without the parse::<f64> test
value_from_string_integers_only(s) ==
    IF s = NullText THEN VNull
    ELSE IF s = BoolText(TRUE) THEN VBool(TRUE)
    ELSE IF s = BoolText(FALSE) THEN VBool(FALSE)
    ELSE IF parse_i64(s) # None THEN VNumber(s)
    ELSE VString(s)

\* The value set_value_from_string stores for text s.
value_from_string(s) ==
    IF s = NullText THEN VNull
    ELSE IF s = BoolText(TRUE) THEN VBool(TRUE)
    ELSE IF s = BoolText(FALSE) THEN VBool(FALSE)
    ELSE IF parse_i64(s) # None \/ parse_f64(s) # None THEN VNumber(s)
    ELSE VString(s)

set_value_from_string(node, s) == [node EXCEPT !.value = value_from_string(s)]

\* Option<&Vec<TreeNode>>
children(node) == IF is_expandable(node) THEN Some(node.value.children) ELSE None

\* remove_child without the renumbering loop
remove_child_no_renumber(node, index) ==
    IF is_expandable(node) /\ index < Len(node.value.children)
    THEN LET cs == node.value.children
         IN  [node EXCEPT !.value.children =
                              SubSeq(cs, 1, index) \o SubSeq(cs, index + 2, Len(cs))]
    ELSE node

\* Vec::remove(index) followed, for an Array, by the renumbering of the
\* children from index on.  The node afterwards; unchanged when remove_child
\* returns None.
remove_child(node, index) ==
    IF is_expandable(node) /\ index < Len(node.value.children)
    THEN LET cs == node.value.children
             rest == SubSeq(cs, 1, index) \o SubSeq(cs, index + 2, Len(cs))
             renum == [i \in 1..Len(rest) |->
                          IF node.value.kind = "Array" /\ i - 1 >= index
                          THEN [rest[i] EXCEPT !.key = IndexKey(i - 1)]
                          ELSE rest[i]]
         IN  [node EXCEPT !.value.children = renum]
    ELSE node

\* remove_child(..).is_some()
remove_child_ok(node, index) ==
    is_expandable(node) /\ index < Len(node.value.children)

\* The node afterwards; unchanged when add_child returns false.
\* add_child that leaves the new entry of an Object last
add_child_unsorted(node, key, value) ==
    CASE node.value.kind = "Object" ->
            [node EXCEPT !.value.children =
                Append(@, TreeNode(key, value, FALSE, node.depth + 1))]
      [] node.value.kind = "Array" ->
            [node EXCEPT !.value.children =
                Append(@, TreeNode(IndexKey(Len(@)), value, FALSE, node.depth + 1))]
      [] OTHER -> node

\* add_child that gives the new entry the expanded flag of a loaded node
add_child_expanding(node, key, value) ==
    CASE node.value.kind = "Object" ->
            [node EXCEPT !.value.children =
                sort_by_key(Append(@, TreeNode(key, value, node.depth + 1 < 2,
                                               node.depth + 1)))]
      [] node.value.kind = "Array" ->
            [node EXCEPT !.value.children =
                Append(@, TreeNode(IndexKey(Len(@)), value, node.depth + 1 < 2,
                                   node.depth + 1))]
      [] OTHER -> node

add_child(node, key, value) ==
    CASE node.value.kind = "Object" ->
            [node EXCEPT !.value.children =
                sort_by_key(Append(@, TreeNode(key, value, FALSE, node.depth + 1)))]
      [] node.value.kind = "Array" ->
            [node EXCEPT !.value.children =
                Append(@, TreeNode(IndexKey(Len(@)), value, FALSE, node.depth + 1))]
      [] OTHER -> node

type_indicator(node) ==
    CASE node.value.kind = "Null" -> "null"
      [] node.value.kind = "Bool" -> "bool"
      [] node.value.kind = "Number" -> "num"
      [] node.value.kind = "String" -> "str"
      [] node.value.kind = "Array" -> IF node.value.children = <<>> THEN "[]" ELSE "[...]"
      [] node.value.kind = "Object" -> IF node.value.children = <<>> THEN "{}" ELSE "{...}"

PreviewLimit == 40
PreviewKept == 37

value_preview(node) ==
    CASE node.value.kind = "Null" -> NullText
      [] node.value.kind = "Bool" -> BoolText(node.value.b)
      [] node.value.kind = "Number" -> node.value.text
      [] node.value.kind = "String" ->
            IF Len(node.value.text) > PreviewLimit
            THEN <<"\"">> \o SubSeq(node.value.text, 1, PreviewKept) \o <<"...", "\"">>
            ELSE <<"\"">> \o node.value.text \o <<"\"">>
      [] node.value.kind = "Array" ->
            <<"[">> \o NatToText(Len(node.value.children)) \o <<" ","i","t","e","m","s","]">>
      [] node.value.kind = "Object" ->
            <<"{">> \o NatToText(Len(node.value.children)) \o <<" ","k","e","y","s","}">>

(***************************************************************************)
(* The projection (FlattenedTree)                                          *)
(***************************************************************************)
FlatNode(node, path) ==
    [key |-> node.key, depth |-> node.depth, expanded |-> node.expanded,
     expandable |-> is_expandable(node), editable |-> is_editable(node),
     type_indicator |-> type_indicator(node), value_preview |-> value_preview(node),
     path |-> path]

\* The concatenation of the sequences of a sequence, in order.
RECURSIVE Flat(_)
Flat(ss) == IF ss = <<>> THEN <<>> ELSE Head(ss) \o Flat(Tail(ss))

\* flatten_node without the test of node.expanded
RECURSIVE flatten_all(_, _)
flatten_all(node, path) ==
    <<FlatNode(node, path)>> \o
    (IF children(node) # None
     THEN Flat([i \in 1..Len(node.value.children) |->
                   flatten_all(node.value.children[i], Append(path, i - 1))])
     ELSE <<>>)

\* flatten_node that numbers the children from 1
RECURSIVE flatten_node_from_one(_, _)
flatten_node_from_one(node, path) ==
    <<FlatNode(node, path)>> \o
    (IF node.expanded /\ children(node) # None
     THEN Flat([i \in 1..Len(node.value.children) |->
                   flatten_node_from_one(node.value.children[i], Append(path, i))])
     ELSE <<>>)

RECURSIVE flatten_node(_, _)
flatten_node(node, path) ==
    <<FlatNode(node, path)>> \o
    (IF node.expanded /\ children(node) # None
     THEN Flat([i \in 1..Len(node.value.children) |->
                   flatten_node(node.value.children[i], Append(path, i - 1))])
     ELSE <<>>)

\* FlattenedTree::from_root(root).nodes
from_root(r) == flatten_node(r, <<>>)

\* navigate_mut(root, path): the node a path of child indices resolves to.
RECURSIVE navigate_mut(_, _)
navigate_mut(node, path) ==
    IF path = <<>> THEN node
    ELSE navigate_mut(node.value.children[Head(path) + 1], Tail(path))

\* The tree with the node at path replaced by new: what a write through the
\* reference navigate_mut returns does.
RECURSIVE replace_at(_, _, _)
replace_at(node, path, new) ==
    IF path = <<>> THEN new
    ELSE [node EXCEPT !.value.children[Head(path) + 1] = replace_at(@, Tail(path), new)]

(***************************************************************************)
(* editing.rs: the word span                                               *)
(***************************************************************************)
is_word_char(c) == IsAlphanumeric(c) \/ c = "_"

RECURSIVE WordStart(_, _)
WordStart(chars, start) ==
    IF start > 0 /\ is_word_char(chars[start]) THEN WordStart(chars, start - 1) ELSE start

RECURSIVE WordEnd(_, _)
WordEnd(chars, end) ==
    IF end < Len(chars) /\ is_word_char(chars[end + 1]) THEN WordEnd(chars, end + 1) ELSE end

\* find_word_bounds without the backward scan
find_word_bounds_forward_only(s, char_pos) ==
    IF s = <<>> THEN <<0, 0>>
    ELSE LET pos == Min(char_pos, SatSub(Len(s), 1))
             end == WordEnd(s, pos)
         IN  IF pos = end /\ pos < Len(s) THEN <<pos, pos + 1>> ELSE <<pos, end>>

\* (start, end) as a pair
find_word_bounds(s, char_pos) ==
    IF s = <<>> THEN <<0, 0>>
    ELSE LET pos == Min(char_pos, SatSub(Len(s), 1))
             start == WordStart(s, pos)
             end == WordEnd(s, pos)
         IN  IF start = end /\ pos < Len(s) THEN <<start, pos + 1>> ELSE <<start, end>>

(***************************************************************************)
(* state.rs: the session.  An App value a is a record with the fields of   *)
(* struct App; every operation below maps an App to the App it leaves.     *)
(***************************************************************************)
RootKey == <<"r","o","o","t">>

\* Some(text.to_string()) / Some(format!(text, arg)) for App.message
Msg(text, arg) == Some([text |-> text, arg |-> arg])

CursorState_new ==
    [selected |-> 0, cursor_on_value |-> TRUE, cursor_pos |-> 0, scroll_offset |-> 0]

reset_cursor(c) == [c EXCEPT !.cursor_pos = 0]

EditState_default ==
    [buffer |-> <<>>, cursor |-> 0, editing_key |-> FALSE, word_range |-> None,
     original |-> <<>>]

EditState_clear(e) == EditState_default

EditState_start(e, text, at_end, is_key) ==
    [buffer |-> text, cursor |-> IF at_end THEN Len(text) ELSE 0, editing_key |-> is_key,
     word_range |-> None, original |-> <<>>]

EditState_start_word(e, original, word, range, is_key) ==
    [buffer |-> word, cursor |-> 0, editing_key |-> is_key, word_range |-> Some(range),
     original |-> original]

\* final_value without the splice into original
final_value_verbatim(e) == e.buffer

final_value(e) ==
    IF e.word_range # None
    THEN LET start == e.word_range[1][1]
             end == e.word_range[1][2]
         IN  Slice(e.original, 0, start) \o e.buffer \o Slice(e.original, end, Len(e.original))
    ELSE e.buffer

SearchState_default == [query |-> <<>>, results |-> <<>>, index |-> 0]

SearchState_clear(s) == [s EXCEPT !.results = <<>>, !.index = 0]

\* The state afterwards; the row returned is results[index] of it when the
\* list is not empty, None otherwise.
SearchState_next(s) ==
    IF s.results = <<>> THEN s
    ELSE [s EXCEPT !.index = (s.index + 1) % Len(s.results)]

\* prev that stops at the first result instead of wrapping to the last
SearchState_prev_stopping(s) ==
    IF s.results = <<>> THEN s
    ELSE [s EXCEPT !.index = IF s.index = 0 THEN 0 ELSE s.index - 1]

SearchState_prev(s) ==
    IF s.results = <<>> THEN s
    ELSE [s EXCEPT !.index = IF s.index = 0 THEN Len(s.results) - 1 ELSE s.index - 1]

OperatorState_default == [pending_op |-> None, motion |-> <<>>]
OperatorState_set(o, op) == [pending_op |-> Some(op), motion |-> <<>>]
\* clear that leaves the motion
OperatorState_clear_op_only(o) == [o EXCEPT !.pending_op = None]
OperatorState_clear(o) == [pending_op |-> None, motion |-> <<>>]
push_motion(o, c) == [o EXCEPT !.motion = Append(@, c)]

App_new(config, mode) ==
    [root |-> from_config_value(RootKey, config, 0),
     cursor |-> CursorState_new,
     edit |-> EditState_default,
     search |-> SearchState_default,
     operator |-> OperatorState_default,
     ui_state |-> "Normal",
     command_buffer |-> <<>>,
     show_help |-> FALSE,
     message |-> None,
     input_mode |-> mode,
     dirty |-> FALSE,
     backend |-> None]

(***************************************************************************)
(* navigation.rs                                                           *)
(***************************************************************************)
flattened(a) == from_root(a.root)

\* flat.nodes.get(i)
get(nodes, i) == IF i < Len(nodes) THEN Some(nodes[i + 1]) ELSE None

move_down(a) ==
    IF a.cursor.selected < SatSub(Len(flattened(a)), 1)
    THEN [a EXCEPT !.cursor.selected = @ + 1, !.cursor.cursor_pos = 0]
    ELSE a

move_up(a) ==
    IF a.cursor.selected > 0
    THEN [a EXCEPT !.cursor.selected = @ - 1, !.cursor.cursor_pos = 0]
    ELSE a

current_word_len(a) ==
    LET node == get(flattened(a), a.cursor.selected)
    IN  IF node # None
        THEN (IF a.cursor.cursor_on_value THEN Len(node[1].value_preview)
              ELSE Len(node[1].key))
        ELSE 0

set_expanded_at_path(a, path, expanded) ==
    LET node == navigate_mut(a.root, path)
    IN  [a EXCEPT !.root = replace_at(a.root, path, [node EXCEPT !.expanded = expanded])]

toggle_at_path(a, path) ==
    LET node == navigate_mut(a.root, path)
    IN  [a EXCEPT !.root = replace_at(a.root, path, [node EXCEPT !.expanded = ~node.expanded])]

toggle_expand(a) ==
    LET node == get(flattened(a), a.cursor.selected)
    IN  IF node # None /\ node[1].expandable THEN toggle_at_path(a, node[1].path) ELSE a

expand_current(a) ==
    LET node == get(flattened(a), a.cursor.selected)
    IN  IF node # None /\ node[1].expandable /\ ~node[1].expanded
        THEN set_expanded_at_path(a, node[1].path, TRUE)
        ELSE a

\* go_to_parent that selects the root row
go_to_parent_root(a) ==
    LET node == get(flattened(a), a.cursor.selected)
    IN  IF node # None /\ node[1].path # <<>> THEN [a EXCEPT !.cursor.selected = 0] ELSE a

go_to_parent(a) ==
    LET flat == flattened(a)
        node == get(flat, a.cursor.selected)
    IN  IF node # None /\ node[1].path # <<>>
        THEN LET parent_path == SubSeq(node[1].path, 1, Len(node[1].path) - 1)
                 hits == {i \in 1..Len(flat) : flat[i].path = parent_path}
             IN  IF hits # {}
                 THEN [a EXCEPT !.cursor.selected =
                          (CHOOSE i \in hits : \A j \in hits : i <= j) - 1]
                 ELSE a
        ELSE a

collapse_current(a) ==
    LET node == get(flattened(a), a.cursor.selected)
    IN  IF node = None THEN a
        ELSE IF node[1].expandable /\ node[1].expanded
        THEN set_expanded_at_path(a, node[1].path, FALSE)
        ELSE IF node[1].depth > 0 THEN go_to_parent(a)
        ELSE a

\* move_left that collapses at column 0 whether on the key or on the value
move_left_collapsing(a) ==
    IF a.cursor.cursor_pos > 0 THEN [a EXCEPT !.cursor.cursor_pos = @ - 1]
    ELSE collapse_current(a)

move_left(a) ==
    IF a.cursor.cursor_pos > 0 THEN [a EXCEPT !.cursor.cursor_pos = @ - 1]
    ELSE IF a.cursor.cursor_on_value
    THEN LET node == get(flattened(a), a.cursor.selected)
         IN  [a EXCEPT !.cursor.cursor_on_value = FALSE,
                       !.cursor.cursor_pos =
                           IF node # None THEN SatSub(Len(node[1].key), 1) ELSE @]
    ELSE collapse_current(a)

move_right(a) ==
    IF a.cursor.cursor_pos < SatSub(current_word_len(a), 1)
    THEN [a EXCEPT !.cursor.cursor_pos = @ + 1]
    ELSE IF ~a.cursor.cursor_on_value
    THEN [a EXCEPT !.cursor.cursor_on_value = TRUE, !.cursor.cursor_pos = 0]
    ELSE expand_current(a)

word_forward(a) ==
    IF ~a.cursor.cursor_on_value
    THEN [a EXCEPT !.cursor.cursor_on_value = TRUE, !.cursor.cursor_pos = 0]
    ELSE [move_down(a) EXCEPT !.cursor.cursor_on_value = FALSE, !.cursor.cursor_pos = 0]

word_backward(a) ==
    IF a.cursor.cursor_on_value
    THEN [a EXCEPT !.cursor.cursor_on_value = FALSE, !.cursor.cursor_pos = 0]
    ELSE [move_up(a) EXCEPT !.cursor.cursor_on_value = TRUE, !.cursor.cursor_pos = 0]

go_to_top(a) == [a EXCEPT !.cursor.selected = 0]

go_to_bottom(a) == [a EXCEPT !.cursor.selected = SatSub(Len(flattened(a)), 1)]

page_down(a, page_size) ==
    [a EXCEPT !.cursor.selected = Min(@ + page_size, SatSub(Len(flattened(a)), 1))]

page_up(a, page_size) == [a EXCEPT !.cursor.selected = SatSub(@, page_size)]

(***************************************************************************)
(* editing.rs                                                              *)
(***************************************************************************)
start_edit_value(a, at_end, clear) ==
    LET node == get(flattened(a), a.cursor.selected)
    IN  IF node = None THEN a
        ELSE IF node[1].editable
        THEN LET val == editable_value(navigate_mut(a.root, node[1].path))
             IN  IF val # None
                 THEN [a EXCEPT !.edit = EditState_start(@, IF clear THEN <<>> ELSE val[1],
                                                         at_end /\ ~clear, FALSE),
                                !.ui_state = "Edit"]
                 ELSE a
        ELSE [a EXCEPT !.message = Msg("Cannot edit containers directly", <<>>)]

\* start_edit_key without the refusal at the root
start_edit_key_any_row(a, clear) ==
    LET node == get(flattened(a), a.cursor.selected)
    IN  IF node = None THEN a
        ELSE [a EXCEPT !.edit = EditState_start(@, IF clear THEN <<>> ELSE node[1].key,
                                                TRUE, TRUE),
                       !.ui_state = "Edit"]

start_edit_key(a, clear) ==
    LET node == get(flattened(a), a.cursor.selected)
    IN  IF node = None THEN a
        ELSE IF node[1].path = <<>>
        THEN [a EXCEPT !.message = Msg("Cannot rename root", <<>>)]
        ELSE [a EXCEPT !.edit = EditState_start(@, IF clear THEN <<>> ELSE node[1].key,
                                                TRUE, TRUE),
                       !.ui_state = "Edit"]

\* The text, is_key and cursor_offset start_edit_word and delete_word work
\* on, when the row's value is editable.
ValueTarget(a, node) ==
    [text |-> editable_value(navigate_mut(a.root, node.path))[1],
     is_key |-> FALSE,
     cursor_offset |-> IF node.type_indicator = "str" THEN 1 ELSE 0]

\* start_edit_word once text, is_key and cursor_offset are known
EditWordIn(a, t, clear) ==
    LET adjusted_pos == SatSub(a.cursor.cursor_pos, t.cursor_offset)
        range == find_word_bounds(t.text, adjusted_pos)
        word == Slice(t.text, range[1], range[2])
    IN  [a EXCEPT !.edit = EditState_start_word(@, t.text, IF clear THEN <<>> ELSE word,
                                                range, t.is_key),
                  !.ui_state = "Edit"]

start_edit_word(a, clear) ==
    LET node == get(flattened(a), a.cursor.selected)
    IN  IF node = None THEN a
        ELSE IF a.cursor.cursor_on_value
        THEN (IF ~node[1].editable
              THEN [a EXCEPT !.message = Msg("Cannot edit containers directly", <<>>)]
              ELSE EditWordIn(a, ValueTarget(a, node[1]), clear))
        ELSE (IF node[1].path = <<>>
              THEN [a EXCEPT !.message = Msg("Cannot rename root", <<>>)]
              ELSE EditWordIn(a, [text |-> node[1].key, is_key |-> TRUE, cursor_offset |-> 0],
                              clear))

apply_edit(a) ==
    LET node == get(flattened(a), a.cursor.selected)
        fv == final_value(a.edit)
        written ==
            IF node = None THEN a
            ELSE LET path == node[1].path
                     tree_node == navigate_mut(a.root, path)
                 IN  IF a.edit.editing_key
                     THEN [a EXCEPT !.root = replace_at(a.root, path, [tree_node EXCEPT !.key = fv]),
                                    !.message = Msg("Key renamed (unsaved)", <<>>),
                                    !.dirty = TRUE]
                     ELSE [a EXCEPT !.root = replace_at(a.root, path,
                                                        set_value_from_string(tree_node, fv)),
                                    !.message = Msg("Value updated (unsaved)", <<>>),
                                    !.dirty = TRUE]
    IN  [written EXCEPT !.ui_state = "Normal", !.edit = EditState_clear(@)]

\* cancel_edit that writes the buffer as apply_edit does
cancel_edit_writing(a) == [apply_edit(a) EXCEPT !.message = Msg("Edit cancelled", <<>>)]

cancel_edit(a) ==
    [a EXCEPT !.ui_state = "Normal", !.edit = EditState_clear(@),
              !.message = Msg("Edit cancelled", <<>>)]

\* str::trim: of the characters that occur only the space is white space
RECURSIVE TrimStart(_)
TrimStart(s) == IF s # <<>> /\ Head(s) = " " THEN TrimStart(Tail(s)) ELSE s
RECURSIVE TrimEnd(_)
TrimEnd(s) ==
    IF s # <<>> /\ s[Len(s)] = " " THEN TrimEnd(SubSeq(s, 1, Len(s) - 1)) ELSE s
trim(s) == TrimEnd(TrimStart(s))

delete_word(a) ==
    LET node == get(flattened(a), a.cursor.selected)
    IN  IF node = None THEN a
        ELSE IF ~a.cursor.cursor_on_value
        THEN [a EXCEPT !.message = Msg("Cannot delete part of key", <<>>)]
        ELSE IF ~node[1].editable
        THEN [a EXCEPT !.message = Msg("Cannot edit containers", <<>>)]
        ELSE LET t == ValueTarget(a, node[1])
                 adjusted_pos == SatSub(a.cursor.cursor_pos, t.cursor_offset)
                 range == find_word_bounds(t.text, adjusted_pos)
                 new_value == trim(Slice(t.text, 0, range[1])
                                   \o Slice(t.text, range[2], Len(t.text)))
                 tree_node == navigate_mut(a.root, node[1].path)
             IN  [a EXCEPT !.root = replace_at(a.root, node[1].path,
                                               set_value_from_string(tree_node, new_value)),
                           !.dirty = TRUE,
                           !.message = Msg("Word deleted (unsaved)", <<>>)]

clear_value(a) ==
    LET node == get(flattened(a), a.cursor.selected)
    IN  IF node = None THEN a
        ELSE IF node[1].editable
        THEN [a EXCEPT !.root = replace_at(a.root, node[1].path,
                            set_value_from_string(navigate_mut(a.root, node[1].path), NullText)),
                       !.dirty = TRUE,
                       !.message = Msg("Value cleared (unsaved)", <<>>)]
        ELSE [a EXCEPT !.message = Msg("Cannot clear containers", <<>>)]

\* delete_current without the clamp of cursor.selected
delete_current_unclamped(a) ==
    LET node == get(flattened(a), a.cursor.selected)
    IN  IF node = None THEN a
        ELSE IF node[1].path = <<>>
        THEN [a EXCEPT !.message = Msg("Cannot delete root", <<>>)]
        ELSE LET parent_path == SubSeq(node[1].path, 1, Len(node[1].path) - 1)
                 child_index == node[1].path[Len(node[1].path)]
                 parent == navigate_mut(a.root, parent_path)
             IN  IF remove_child_ok(parent, child_index)
                 THEN [a EXCEPT !.root = replace_at(a.root, parent_path,
                                             remove_child(parent, child_index)),
                                !.dirty = TRUE,
                                !.message = Msg("Deleted (unsaved)", <<>>)]
                 ELSE a

delete_current(a) ==
    LET node == get(flattened(a), a.cursor.selected)
    IN  IF node = None THEN a
        ELSE IF node[1].path = <<>>
        THEN [a EXCEPT !.message = Msg("Cannot delete root", <<>>)]
        ELSE LET parent_path == SubSeq(node[1].path, 1, Len(node[1].path) - 1)
                 child_index == node[1].path[Len(node[1].path)]
                 parent == navigate_mut(a.root, parent_path)
             IN  IF remove_child_ok(parent, child_index)
                 THEN LET removed == [a EXCEPT !.root = replace_at(a.root, parent_path,
                                                           remove_child(parent, child_index)),
                                               !.dirty = TRUE,
                                               !.message = Msg("Deleted (unsaved)", <<>>)]
                          new_len == Len(flattened(removed))
                      IN  IF removed.cursor.selected >= new_len
                          THEN [removed EXCEPT !.cursor.selected = SatSub(new_len, 1)]
                          ELSE removed
                 ELSE a

NewKeyText == <<"n","e","w","_","k","e","y">>
NewValueText == <<"v","a","l","u","e">>

add_new_key(a) ==
    LET node == get(flattened(a), a.cursor.selected)
    IN  IF node = None THEN a
        ELSE LET path == node[1].path
                 target == navigate_mut(a.root, path)
             IN  IF is_expandable(target)
                 THEN LET key == IF target.value.kind = "Array" THEN <<>> ELSE NewKeyText
                          opened == [target EXCEPT !.expanded = TRUE]
                      IN  [a EXCEPT !.root = replace_at(a.root, path,
                                          add_child(opened, key, VString(NewValueText))),
                                    !.dirty = TRUE,
                                    !.message = Msg("Added new key (unsaved)", <<>>)]
                 ELSE [a EXCEPT !.message = Msg("Can only add to objects/arrays", <<>>)]

\* format_config_value that writes an array or object as "{}"
format_config_value_braces(value) ==
    CASE value.kind = "Null" -> NullText
      [] value.kind = "Bool" -> BoolText(value.b)
      [] value.kind = "Integer" -> i64_to_string(value.i)
      [] value.kind = "Float" -> f64_to_string(value.f)
      [] value.kind = "String" -> value.s
      [] OTHER -> <<"{", "}">>

format_config_value(value) ==
    CASE value.kind = "Null" -> NullText
      [] value.kind = "Bool" -> BoolText(value.b)
      [] value.kind = "Integer" -> i64_to_string(value.i)
      [] value.kind = "Float" -> f64_to_string(value.f)
      [] value.kind = "String" -> value.s
      [] OTHER -> <<>>

\* save.  env.set_ok: whether the backend's set succeeds; env.pick: which
\* entry the HashMap's iterator yields first.  The result: the App afterwards
\* and whether save returned Ok.  save_called: the App once backend.set was
\* called with the formatted value.
save_called(a, env, inner) ==
    IF inner = None THEN a
    ELSE [a EXCEPT !.backend =
             Some([key |-> <<>>, value |-> format_config_value(inner[1]),
                   ok |-> env.set_ok])]

\* The value of the entry obj.into_iter().next() yields: the one of keys that
\* the iteration order puts first.  None when config is no Object or is empty.
first_entry(config, keys, pick) ==
    IF keys = <<>> THEN None ELSE Some(config.map[keys[(pick % Len(keys)) + 1]])

\* save_first that clears dirty whether or not the backend's set succeeded
save_first_clearing(a, env, inner) ==
    [app |-> [save_called(a, env, inner) EXCEPT !.dirty = FALSE,
                                                !.message = Msg("Saved", <<>>)],
     ok |-> inner = None \/ env.set_ok]

save_first(a, env, inner) ==
    IF inner # None /\ ~env.set_ok
    THEN [app |-> save_called(a, env, inner), ok |-> FALSE]
    ELSE [app |-> [save_called(a, env, inner) EXCEPT !.dirty = FALSE,
                                                     !.message = Msg("Saved", <<>>)],
          ok |-> TRUE]

save_config(a, env, config) ==
    save_first(a, env,
               first_entry(config,
                           IF config.kind = "Object" THEN SeqOfSet(DOMAIN config.map) ELSE <<>>,
                           env.pick))

save(a, env) == save_config(a, env, to_config_value(a.root))

\* save_or_report that lets :wq and :x quit after a failed save as well
save_or_report_quitting(r, quit_on_ok) ==
    IF r.ok THEN [app |-> r.app, quit |-> quit_on_ok]
    ELSE [app |-> [r.app EXCEPT !.message = Msg("Save failed: {}", <<>>)], quit |-> quit_on_ok]

\* if let Err(e) = save(app) { app.message = Some(format!("Save failed: {}", e)) }
\* applied to r = save(app); quit_on_ok for "wq" and "x".
save_or_report(r, quit_on_ok) ==
    IF r.ok THEN [app |-> r.app, quit |-> quit_on_ok]
    ELSE [app |-> [r.app EXCEPT !.message = Msg("Save failed: {}", <<>>)], quit |-> FALSE]

(***************************************************************************)
(* input.rs.  A key event is a record: its KeyCode (code, and ch for       *)
(* KeyCode::Char) and the CONTROL and SHIFT modifiers.  A handler's result *)
(* is the App afterwards and the bool it returns (quit).                   *)
(***************************************************************************)
Char(c) == [code |-> "Char", ch |-> c, ctrl |-> FALSE, shift |-> FALSE]
Ctrl(c) == [code |-> "Char", ch |-> c, ctrl |-> TRUE, shift |-> FALSE]
Shift(c) == [code |-> "Char", ch |-> c, ctrl |-> FALSE, shift |-> TRUE]
Key(code) == [code |-> code, ch |-> "", ctrl |-> FALSE, shift |-> FALSE]

IsChar(key, c) == key.code = "Char" /\ key.ch = c

Stay(a) == [app |-> a, quit |-> FALSE]
Quit(a) == [app |-> a, quit |-> TRUE]

PageSize == 10

\* start_command that keeps what the buffer held
start_command_appending(a, prefix) ==
    [a EXCEPT !.ui_state = "Command", !.command_buffer = Append(@, prefix)]

start_command(a, prefix) == [a EXCEPT !.ui_state = "Command", !.command_buffer = <<prefix>>]

\* execute_search without the lower-casing of the query
execute_search_query_as_typed(a) ==
    LET cleared == [a EXCEPT !.search = SearchState_clear(@)]
        query == a.search.query
        flat == flattened(a)
        hit(i) == \/ Contains(to_lowercase(flat[i + 1].key), query)
                  \/ Contains(to_lowercase(flat[i + 1].value_preview), query)
        RECURSIVE scan(_)
        scan(i) == IF i >= Len(flat) THEN <<>>
                   ELSE (IF hit(i) THEN <<i>> ELSE <<>>) \o scan(i + 1)
        results == scan(0)
    IN  IF a.search.query = <<>> THEN cleared
        ELSE IF results # <<>>
        THEN [cleared EXCEPT !.search.results = results,
                             !.cursor.selected = results[1],
                             !.message = Msg("Found {} match(es)", NatToText(Len(results)))]
        ELSE [cleared EXCEPT !.message = Msg("No matches found", <<>>)]

execute_search(a) ==
    LET cleared == [a EXCEPT !.search = SearchState_clear(@)]
        query == to_lowercase(a.search.query)
        flat == flattened(a)
        hit(i) == \/ Contains(to_lowercase(flat[i + 1].key), query)
                  \/ Contains(to_lowercase(flat[i + 1].value_preview), query)
        \* the matching rows in row order
        RECURSIVE scan(_)
        scan(i) == IF i >= Len(flat) THEN <<>>
                   ELSE (IF hit(i) THEN <<i>> ELSE <<>>) \o scan(i + 1)
        results == scan(0)
    IN  IF a.search.query = <<>> THEN cleared
        ELSE IF results # <<>>
        THEN [cleared EXCEPT !.search.results = results,
                             !.cursor.selected = results[1],
                             !.message = Msg("Found {} match(es)", NatToText(Len(results)))]
        ELSE [cleared EXCEPT !.message = Msg("No matches found", <<>>)]

next_search_result(a) ==
    LET s == SearchState_next(a.search)
    IN  IF a.search.results = <<>> THEN a
        ELSE [a EXCEPT !.search = s, !.cursor.selected = s.results[s.index + 1]]

prev_search_result(a) ==
    LET s == SearchState_prev(a.search)
    IN  IF a.search.results = <<>> THEN a
        ELSE [a EXCEPT !.search = s, !.cursor.selected = s.results[s.index + 1]]

execute_operator(a, op, motion) ==
    LET word == motion \in {<<"i","w">>, <<"a","w">>, <<"w">>}
        field == motion \in {<<"i","p">>, <<"a","p">>, <<"p">>}
    IN  CASE op = "c" /\ word -> start_edit_word(a, TRUE)
          [] op = "c" /\ field ->
                IF a.cursor.cursor_on_value THEN start_edit_value(a, FALSE, TRUE)
                ELSE start_edit_key(a, TRUE)
          [] op = "d" /\ motion = <<"d">> -> delete_current(a)
          [] op = "d" /\ word -> delete_word(a)
          [] op = "d" /\ field ->
                IF a.cursor.cursor_on_value THEN clear_value(a)
                ELSE [a EXCEPT !.message = Msg("Use dd to delete entry", <<>>)]
          [] OTHER -> [a EXCEPT !.message = Msg("Unknown: {}{}", <<op>> \o motion)]

CompleteMotions ==
    {<<"d">>, <<"w">>, <<"p">>, <<"i","w">>, <<"a","w">>, <<"i","p">>, <<"a","p">>}

\* handle_pending_operator that gives up a motion at three characters, not two
handle_pending_operator_three(a, op, key) ==
    IF key.code = "Char"
    THEN LET pushed == [a EXCEPT !.operator = push_motion(@, key.ch)]
             motion == pushed.operator.motion
         IN  IF motion \in CompleteMotions
             THEN Stay([execute_operator(pushed, op, motion) EXCEPT
                           !.operator = OperatorState_clear(@)])
             ELSE IF Len(motion) >= 3
             THEN Stay([pushed EXCEPT !.message = Msg("Unknown motion: {}", motion),
                                      !.operator = OperatorState_clear(@)])
             ELSE Stay(pushed)
    ELSE IF key.code = "Esc" THEN Stay([a EXCEPT !.operator = OperatorState_clear(@)])
    ELSE Stay(a)

handle_pending_operator(a, op, key) ==
    IF key.code = "Char"
    THEN LET pushed == [a EXCEPT !.operator = push_motion(@, key.ch)]
             motion == pushed.operator.motion
         IN  IF motion \in CompleteMotions
             THEN Stay([execute_operator(pushed, op, motion) EXCEPT
                           !.operator = OperatorState_clear(@)])
             ELSE IF Len(motion) >= 2
             THEN Stay([pushed EXCEPT !.message = Msg("Unknown motion: {}", motion),
                                      !.operator = OperatorState_clear(@)])
             ELSE Stay(pushed)
    ELSE IF key.code = "Esc" THEN Stay([a EXCEPT !.operator = OperatorState_clear(@)])
    ELSE Stay(a)

handle_vi_normal(a, key) ==
    IF a.operator.pending_op # None
    THEN handle_pending_operator(a, a.operator.pending_op[1], key)
    ELSE Stay(
        CASE IsChar(key, "j") -> move_down(a)
          [] IsChar(key, "k") -> move_up(a)
          [] IsChar(key, "l") -> move_right(a)
          [] IsChar(key, "h") -> move_left(a)
          [] IsChar(key, "w") -> word_forward(a)
          [] IsChar(key, "b") -> word_backward(a)
          [] IsChar(key, " ") -> toggle_expand(a)
          [] IsChar(key, "g") -> IF key.shift THEN go_to_bottom(a) ELSE go_to_top(a)
          [] IsChar(key, "G") -> go_to_bottom(a)
          [] IsChar(key, "/") -> start_command(a, "/")
          [] IsChar(key, ":") -> start_command(a, ":")
          [] IsChar(key, "n") -> next_search_result(a)
          [] IsChar(key, "N") -> prev_search_result(a)
          [] IsChar(key, "?") -> [a EXCEPT !.show_help = ~@]
          [] IsChar(key, "d") /\ key.ctrl -> page_down(a, PageSize)
          [] IsChar(key, "u") /\ key.ctrl -> page_up(a, PageSize)
          [] IsChar(key, "i") -> start_edit_value(a, FALSE, FALSE)
          [] IsChar(key, "a") -> start_edit_value(a, TRUE, FALSE)
          [] (IsChar(key, "c") \/ IsChar(key, "d")) /\ ~(key.ch = "d" /\ key.ctrl) ->
                [a EXCEPT !.operator = OperatorState_set(@, key.ch)]
          [] IsChar(key, "o") -> add_new_key(a)
          [] key.code = "Esc" ->
                [a EXCEPT !.show_help = FALSE, !.search = SearchState_clear(@),
                          !.operator = OperatorState_clear(@)]
          [] OTHER -> a)

handle_basic_normal(a, key, env) ==
    CASE key.code = "Esc" -> 
            IF a.dirty
            THEN Stay([a EXCEPT !.message =
                          Msg("Unsaved changes! Press Esc again or Ctrl+S to save", <<>>)])
            ELSE Quit(a)
      [] key.code = "Down" -> Stay(move_down(a))
      [] key.code = "Up" -> Stay(move_up(a))
      [] key.code = "Right" -> Stay(expand_current(a))
      [] key.code = "Left" -> Stay(collapse_current(a))
      [] key.code = "Enter" ->
            LET node == get(flattened(a), a.cursor.selected)
            IN  IF node = None THEN Stay(a)
                ELSE IF node[1].editable THEN Stay(start_edit_value(a, TRUE, FALSE))
                ELSE Stay(toggle_expand(a))
      [] key.code = "Home" -> Stay(go_to_top(a))
      [] key.code = "End" -> Stay(go_to_bottom(a))
      [] key.code = "PageDown" -> Stay(page_down(a, PageSize))
      [] key.code = "PageUp" -> Stay(page_up(a, PageSize))
      [] IsChar(key, "f") /\ key.ctrl -> Stay(start_command(a, "/"))
      [] IsChar(key, "s") /\ key.ctrl ->
            save_or_report(save(a, env), FALSE)
      [] key.code = "Delete" -> Stay(delete_current(a))
      [] key.code = "Insert" -> Stay(add_new_key(a))
      [] key.code = "F3" -> Stay(next_search_result(a))
      [] key.code = "F1" -> Stay([a EXCEPT !.show_help = ~@])
      [] OTHER -> Stay(a)

\* handle_command_input whose Backspace pops the sigil as well
handle_command_input_popping(a, key) ==
    CASE key.code = "Esc" -> [a EXCEPT !.ui_state = "Normal", !.command_buffer = <<>>]
      [] key.code = "Backspace" ->
            [a EXCEPT !.command_buffer = SubSeq(@, 1, Len(@) - 1)]
      [] key.code = "Char" -> [a EXCEPT !.command_buffer = Append(@, key.ch)]
      [] OTHER -> a

handle_command_input(a, key) ==
    CASE key.code = "Esc" -> [a EXCEPT !.ui_state = "Normal", !.command_buffer = <<>>]
      [] key.code = "Backspace" ->
            IF Len(a.command_buffer) > 1
            THEN [a EXCEPT !.command_buffer = SubSeq(@, 1, Len(@) - 1)]
            ELSE [a EXCEPT !.ui_state = "Normal", !.command_buffer = <<>>]
      [] key.code = "Char" -> [a EXCEPT !.command_buffer = Append(@, key.ch)]
      [] OTHER -> a

\* String::remove(i)
RemoveAt(s, i) == SubSeq(s, 1, i) \o SubSeq(s, i + 2, Len(s))
\* String::insert(i, c)
InsertAt(s, i, c) == SubSeq(s, 1, i) \o <<c>> \o SubSeq(s, i + 1, Len(s))

\* handle_edit_input whose Right does not stop at the end of the buffer
handle_edit_input_right_unchecked(a, key) ==
    CASE key.code = "Enter" -> apply_edit(a)
      [] key.code = "Esc" -> cancel_edit(a)
      [] key.code = "Backspace" ->
            IF a.edit.cursor > 0
            THEN [a EXCEPT !.edit.cursor = @ - 1,
                           !.edit.buffer = RemoveAt(@, a.edit.cursor - 1)]
            ELSE a
      [] key.code = "Delete" ->
            IF a.edit.cursor < Len(a.edit.buffer)
            THEN [a EXCEPT !.edit.buffer = RemoveAt(@, a.edit.cursor)]
            ELSE a
      [] key.code = "Left" ->
            IF a.edit.cursor > 0 THEN [a EXCEPT !.edit.cursor = @ - 1] ELSE a
      [] key.code = "Right" ->
            [a EXCEPT !.edit.cursor = @ + 1]
      [] key.code = "Home" -> [a EXCEPT !.edit.cursor = 0]
      [] key.code = "End" -> [a EXCEPT !.edit.cursor = Len(a.edit.buffer)]
      [] key.code = "Char" ->
            [a EXCEPT !.edit.buffer = InsertAt(@, a.edit.cursor, key.ch),
                      !.edit.cursor = @ + 1]
      [] OTHER -> a

handle_edit_input(a, key) ==
    CASE key.code = "Enter" -> apply_edit(a)
      [] key.code = "Esc" -> cancel_edit(a)
      [] key.code = "Backspace" ->
            IF a.edit.cursor > 0
            THEN [a EXCEPT !.edit.cursor = @ - 1,
                           !.edit.buffer = RemoveAt(@, a.edit.cursor - 1)]
            ELSE a
      [] key.code = "Delete" ->
            IF a.edit.cursor < Len(a.edit.buffer)
            THEN [a EXCEPT !.edit.buffer = RemoveAt(@, a.edit.cursor)]
            ELSE a
      [] key.code = "Left" ->
            IF a.edit.cursor > 0 THEN [a EXCEPT !.edit.cursor = @ - 1] ELSE a
      [] key.code = "Right" ->
            IF a.edit.cursor < Len(a.edit.buffer) THEN [a EXCEPT !.edit.cursor = @ + 1] ELSE a
      [] key.code = "Home" -> [a EXCEPT !.edit.cursor = 0]
      [] key.code = "End" -> [a EXCEPT !.edit.cursor = Len(a.edit.buffer)]
      [] key.code = "Char" ->
            [a EXCEPT !.edit.buffer = InsertAt(@, a.edit.cursor, key.ch),
                      !.edit.cursor = @ + 1]
      [] OTHER -> a

\* handle_input in which Esc of the linear keymap quits whatever dirty is
handle_input_escape_quits(a, key, env) ==
    CASE a.ui_state = "Normal" /\ a.input_mode = "Vi" -> handle_vi_normal(a, key)
      [] a.ui_state = "Normal" /\ a.input_mode = "Basic" ->
            IF key.code = "Esc" THEN Quit(a) ELSE handle_basic_normal(a, key, env)
      [] a.ui_state = "Command" -> Stay(handle_command_input(a, key))
      [] a.ui_state = "Edit" -> Stay(handle_edit_input(a, key))

\* handle_input that passes the arrow keys of Edit state to the keymap first
handle_input_edit_arrows(a, key, env) ==
    CASE a.ui_state = "Normal" /\ a.input_mode = "Vi" -> handle_vi_normal(a, key)
      [] a.ui_state = "Normal" /\ a.input_mode = "Basic" -> handle_basic_normal(a, key, env)
      [] a.ui_state = "Command" -> Stay(handle_command_input(a, key))
      [] a.ui_state = "Edit" ->
            IF key.code \in {"Up", "Down"}
            THEN handle_basic_normal(a, key, env)
            ELSE Stay(handle_edit_input(a, key))

handle_input(a, key, env) ==
    CASE a.ui_state = "Normal" /\ a.input_mode = "Vi" -> handle_vi_normal(a, key)
      [] a.ui_state = "Normal" /\ a.input_mode = "Basic" -> handle_basic_normal(a, key, env)
      [] a.ui_state = "Command" -> Stay(handle_command_input(a, key))
      [] a.ui_state = "Edit" -> Stay(handle_edit_input(a, key))

\* The bool returned is should_quit.
execute_command(a, env) ==
    LET cmd == Tail(a.command_buffer)
        r == IF a.command_buffer # <<>> /\ Head(a.command_buffer) = "/"
             THEN Stay(execute_search([a EXCEPT !.search.query = cmd]))
             ELSE IF a.command_buffer # <<>> /\ Head(a.command_buffer) = ":"
             THEN CASE cmd \in {<<"q">>, <<"q","u","i","t">>} ->
                        IF a.dirty
                        THEN Stay([a EXCEPT !.message =
                                 Msg("Unsaved changes! Use :q! to force or :wq to save", <<>>)])
                        ELSE Quit(a)
                    [] cmd = <<"q","!">> -> Quit(a)
                    [] cmd \in {<<"w">>, <<"w","r","i","t","e">>} ->
                        save_or_report(save(a, env), FALSE)
                    [] cmd \in {<<"w","q">>, <<"x">>} ->
                        save_or_report(save(a, env), TRUE)
                    [] OTHER -> Stay([a EXCEPT !.message = Msg("Unknown command: {}", cmd)])
             ELSE Stay(a)
    IN  [r EXCEPT !.app.ui_state = "Normal"]

(***************************************************************************)
(* mod.rs: one iteration of the loop of run_app on a key event             *)
(***************************************************************************)
\* run_app_step without app.message = None
run_app_step_keeping(a, key, env) ==
    IF a.ui_state = "Command" /\ key.code = "Enter"
    THEN execute_command(a, env)
    ELSE handle_input(a, key, env)

run_app_step(a, key, env) ==
    LET cleared == [a EXCEPT !.message = None]
    IN  IF cleared.ui_state = "Command" /\ key.code = "Enter"
        THEN execute_command(cleared, env)
        ELSE handle_input(cleared, key, env)

(***************************************************************************)
(* The state machine                                                       *)
(***************************************************************************)
App ==
    [root |-> root, cursor |-> cursor, edit |-> edit, search |-> search,
     operator |-> operator, ui_state |-> ui_state, command_buffer |-> command_buffer,
     show_help |-> show_help, message |-> message, input_mode |-> input_mode,
     dirty |-> dirty, backend |-> backend]

AppIs(a) ==
    /\ root = a.root /\ cursor = a.cursor /\ edit = a.edit /\ search = a.search
    /\ operator = a.operator /\ ui_state = a.ui_state
    /\ command_buffer = a.command_buffer /\ show_help = a.show_help
    /\ message = a.message /\ input_mode = a.input_mode /\ dirty = a.dirty
    /\ backend = a.backend

Becomes(a) ==
    /\ root' = a.root /\ cursor' = a.cursor /\ edit' = a.edit /\ search' = a.search
    /\ operator' = a.operator /\ ui_state' = a.ui_state
    /\ command_buffer' = a.command_buffer /\ show_help' = a.show_help
    /\ message' = a.message /\ input_mode' = a.input_mode /\ dirty' = a.dirty
    /\ backend' = a.backend

NoCall == [fn |-> "none"]
NoResult == [stage |-> "none"]

\* Bounds of the exploration.
MaxNodes == 6      \* a child is added only to a tree of fewer nodes

RECURSIVE NodeCount(_)
NodeCount(node) ==
    IF is_expandable(node)
    THEN 1 + Len(Flat([i \in 1..Len(node.value.children) |->
                          [j \in 1..NodeCount(node.value.children[i]) |-> 0]]))
    ELSE 1

\* The document loaded: {"a": ["x", {"c": 1}]}.  The object at depth 2 is
\* loaded collapsed.
DocNested ==
    CObject([k \in {<<"a">>} |->
        CArray(<<CString(<<"x">>), CObject([c \in {<<"c">>} |-> CInteger(1)])>>)])
Modes == {"Vi", "Basic"}

\* pick ranges over the entries of the root object: the iterator of a
\* HashMap may yield any of them first.
Picks ==
    IF root.value.kind = "Object" /\ root.value.children # <<>>
    THEN Len(root.value.children) ELSE 1
Envs == [set_ok : BOOLEAN, pick : 0..(Picks - 1)]

\* Only a save reads env: it is reached by Enter in Command state and by
\* Ctrl+S in the linear keymap.
EnvsFor(key) ==
    IF \/ (ui_state = "Command" /\ key.code = "Enter")
       \/ (ui_state = "Normal" /\ input_mode = "Basic" /\ IsChar(key, "s") /\ key.ctrl)
    THEN Envs
    ELSE {[set_ok |-> TRUE, pick |-> 0]}

\* The loop goes on with the App the step left, or returns.
Returned(r) == Becomes(r.app) /\ running' = ~r.quit

\* One iteration of the loop on key event key, while the loop runs.
KeyEvent(key) ==
    /\ running
    /\ \E env \in EnvsFor(key) : Returned(run_app_step(App, key, env))
    /\ UNCHANGED <<call, result>>

InVi == ui_state = "Normal" /\ input_mode = "Vi" /\ operator.pending_op = None
InPending == ui_state = "Normal" /\ input_mode = "Vi" /\ operator.pending_op # None
InBasic == ui_state = "Normal" /\ input_mode = "Basic"

\* A key that adds a child is offered while the tree has fewer than MaxNodes nodes.
MayAdd == NodeCount(root) < MaxNodes

(***************************************************************************)
(* Spec: the keys of Normal state that move the cursor, expand, collapse,  *)
(* delete a row or add a child, in both keymaps.                           *)
(***************************************************************************)
NavViKeys ==
    {Char(c) : c \in {"j", "k", "l", "h", "w", "b", " ", "g", "G", "n", "d", "u"}}
    \cup {Shift("g"), Ctrl("d"), Ctrl("u"), Key("Esc")}
NavPendingKeys == {Char("d"), Char("x"), Key("Esc"), Key("Tab")}
NavBasicKeys ==
    {Key(c) : c \in {"Esc", "Down", "Up", "Right", "Left", "Home", "End",
                     "PageDown", "PageUp", "Delete", "F3", "Tab"}}

NavVi == InVi /\ \E key \in NavViKeys : KeyEvent(key)
NavViAdd == InVi /\ MayAdd /\ KeyEvent(Char("o"))
NavPending == InPending /\ \E key \in NavPendingKeys : KeyEvent(key)
NavBasic == InBasic /\ \E key \in NavBasicKeys : KeyEvent(key)
NavBasicAdd == InBasic /\ MayAdd /\ KeyEvent(Key("Insert"))

Init ==
    /\ \E mode \in Modes : AppIs(App_new(DocNested, mode))
    /\ running = TRUE
    /\ call = NoCall
    /\ result = NoResult

Next ==
    \/ NavVi
    \/ NavViAdd
    \/ NavPending
    \/ NavBasic
    \/ NavBasicAdd

Spec == Init /\ [][Next]_vars

(***************************************************************************)
(* Properties of navigation (checked under Spec)                           *)
(***************************************************************************)
\* cursor.selected is a row of the projection of the tree of a
SelectedValid(a) == a.cursor.selected <= Len(flattened(a)) - 1

\* cursor_pos is within the text it targets on the selected row
CursorPosInText(a) == a.cursor.cursor_pos <= current_word_len(a)

\* What each operation that moves the selection or changes which rows show
\* makes of a.
Navigated(a) ==
    {move_down(a), move_up(a), move_left(a), move_right(a), word_forward(a),
     word_backward(a), go_to_top(a), go_to_bottom(a), toggle_expand(a),
     expand_current(a), collapse_current(a), page_down(a, PageSize),
     page_up(a, PageSize)}

\* Paging by every page size up to the one the keys use.
Paged(a) == {page_down(a, n) : n \in 1..PageSize} \cup {page_up(a, n) : n \in 1..PageSize}

\* C1: every navigation operation, and delete_current, started with
\* cursor.selected on a row of the projection, ends with cursor.selected on a
\* row of the projection of the tree as it is afterwards.
C1_SelectedStaysValid ==
    SelectedValid(App) =>
        \A b \in Navigated(App) \cup Paged(App) \cup {delete_current(App)} :
            SelectedValid(b)

\* C1 witness: delete_current has removed the last row while it was selected,
\* and the selection is the new last row.
C1_Witness ==
    /\ message = Msg("Deleted (unsaved)", <<>>)
    /\ cursor.selected = Len(flattened(App)) - 1
    /\ cursor.selected > 0

\* The keys of go_to_top, go_to_bottom, page_down and page_up in the two keymaps.
JumpKeys ==
    {Char("g"), Shift("g"), Char("G"), Ctrl("d"), Ctrl("u")}
    \cup {Key(c) : c \in {"Home", "End", "PageDown", "PageUp"}}

JumpStep == (InVi \/ InBasic) /\ \E key \in JumpKeys : KeyEvent(key)

\* C3: after a navigation operation that changes the selected row (go_to_top,
\* go_to_bottom, page_down, page_up), cursor_pos does not exceed the length of
\* the text it targets on the selected row (the key, or the value preview).
C3_JumpKeepsCursorPosInText ==
    [][(CursorPosInText(App) /\ JumpStep) => CursorPosInText(App)']_vars

(***************************************************************************)
(* SpecSearch: a search typed and submitted, the jumps between its         *)
(* results, and the keys that change the projection in between.            *)
(***************************************************************************)
MaxQuery == 1         \* the longest query typed
MaxSearchNodes == 4   \* a child is added only to a tree of fewer nodes
SearchChars == {"x", "A"}

\* The document loaded: {"a": ["x"]}
DocSearch == CObject([k \in {<<"a">>} |-> CArray(<<CString(<<"x">>)>>)])
SearchMayAdd == NodeCount(root) < MaxSearchNodes

SearchViKeys ==
    {Char(c) : c \in {"j", "k", " ", "/", "n", "N", "d"}} \cup {Key("Esc")}
SearchPendingKeys == {Char("d"), Key("Esc")}
SearchBasicKeys ==
    {Key(c) : c \in {"Down", "Up", "Left", "Right", "Delete", "F3"}} \cup {Ctrl("f")}
SearchCommandKeys == {Key("Enter"), Key("Esc"), Key("Backspace")}

InCommand == ui_state = "Command"

SearchVi == InVi /\ \E key \in SearchViKeys : KeyEvent(key)
SearchViAdd == InVi /\ SearchMayAdd /\ KeyEvent(Char("o"))
SearchPending == InPending /\ \E key \in SearchPendingKeys : KeyEvent(key)
SearchBasic == InBasic /\ \E key \in SearchBasicKeys : KeyEvent(key)
SearchBasicAdd == InBasic /\ SearchMayAdd /\ KeyEvent(Key("Insert"))
SearchType ==
    /\ InCommand
    /\ Len(command_buffer) <= MaxQuery
    /\ \E c \in SearchChars : KeyEvent(Char(c))
SearchCommand == InCommand /\ \E key \in SearchCommandKeys : KeyEvent(key)

InitSearch ==
    /\ \E mode \in Modes : AppIs(App_new(DocSearch, mode))
    /\ running = TRUE
    /\ call = NoCall
    /\ result = NoResult

NextSearch ==
    \/ SearchVi
    \/ SearchViAdd
    \/ SearchPending
    \/ SearchBasic
    \/ SearchBasicAdd
    \/ SearchType
    \/ SearchCommand

SpecSearch == InitSearch /\ [][NextSearch]_vars

(***************************************************************************)
(* SpecEdit: the keys that start an edit of a value, of a key or of a      *)
(* word, the keys of Edit state, and the deletion of a row.                *)
(***************************************************************************)
MaxBuf == 1        \* a character is typed into an edit buffer shorter than this
EditChars == {"z"}

\* The document loaded: {"a": [1], "b": {}}
DocEdit ==
    CObject([k \in {<<"a">>, <<"b">>} |->
        IF k = <<"a">> THEN CArray(<<CInteger(1)>>) ELSE CObject(<<>>)])

EditViKeys == {Char(c) : c \in {"j", "k", "l", "h", "i", "c", "d"}} \cup {Key("Esc")}
EditPendingKeys == {Char("p"), Char("d"), Key("Esc")}
EditBasicKeys == {Key(c) : c \in {"Down", "Up", "Enter", "Delete"}}
EditStateKeys == {Key(c) : c \in {"Enter", "Esc", "Backspace", "Left"}}

InEdit == ui_state = "Edit"

EditVi == InVi /\ \E key \in EditViKeys : KeyEvent(key)
EditPending == InPending /\ \E key \in EditPendingKeys : KeyEvent(key)
EditBasic == InBasic /\ \E key \in EditBasicKeys : KeyEvent(key)
EditType ==
    /\ InEdit
    /\ Len(edit.buffer) < MaxBuf
    /\ \E c \in EditChars : KeyEvent(Char(c))
EditKeys == InEdit /\ \E key \in EditStateKeys : KeyEvent(key)

InitEdit ==
    /\ \E mode \in Modes : AppIs(App_new(DocEdit, mode))
    /\ running = TRUE
    /\ call = NoCall
    /\ result = NoResult

NextEdit ==
    \/ EditVi
    \/ EditPending
    \/ EditBasic
    \/ EditType
    \/ EditKeys

SpecEdit == InitEdit /\ [][NextEdit]_vars

(***************************************************************************)
(* SpecWord: the modal keymap's operators c and d with their motions on a  *)
(* key and on a text value of two words, and the keys of Edit state.       *)
(***************************************************************************)
MaxWord == 1       \* a character is typed into an edit buffer shorter than this
WordChars == {"z", "1"}

\* The document loaded: {"k": "a b"}
DocWord == CObject([k \in {<<"k">>} |-> CString(<<"a", " ", "b">>)])

WordViKeys == {Char(c) : c \in {"j", "l", "h", "c", "d"}} \cup {Key("Esc")}
WordPendingKeys == {Char(c) : c \in {"w", "p", "i", "a", "d", "x"}} \cup {Key("Esc"), Key("Tab")}
WordStateKeys ==
    {Key(c) : c \in {"Enter", "Esc", "Backspace", "Delete", "Left", "Right", "Home", "End"}}

WordVi == InVi /\ \E key \in WordViKeys : KeyEvent(key)
WordPending == InPending /\ \E key \in WordPendingKeys : KeyEvent(key)
WordType ==
    /\ InEdit
    /\ Len(edit.buffer) < MaxWord
    /\ \E c \in WordChars : KeyEvent(Char(c))
WordKeys == InEdit /\ \E key \in WordStateKeys : KeyEvent(key)

InitWord ==
    /\ AppIs(App_new(DocWord, "Vi"))
    /\ running = TRUE
    /\ call = NoCall
    /\ result = NoResult

NextWord ==
    \/ WordVi
    \/ WordPending
    \/ WordType
    \/ WordKeys

SpecWord == InitWord /\ [][NextWord]_vars

(***************************************************************************)
(* SpecCmd: both keymaps with the `:` commands, the saves, the quits and   *)
(* the keys that change the document or are refused.  Characters are typed *)
(* into the command line along the command texts of CmdTexts, and Enter    *)
(* submits whatever part of one has been typed.                            *)
(***************************************************************************)
MaxCmdNodes == 3   \* a child is added only to a tree of fewer nodes

\* The document loaded: {"a": 1}
DocCmd == CObject([k \in {<<"a">>} |-> CInteger(1)])

CmdTexts ==
    {<<":", "q">>, <<":", "q", "u", "i", "t">>, <<":", "q", "!">>,
     <<":", "w">>, <<":", "w", "r", "i", "t", "e">>, <<":", "w", "q">>, <<":", "x">>}
CmdChars == {"q", "u", "i", "t", "!", "w", "r", "e", "x"}

\* text begins one of the command texts
BeginsCmd(text) ==
    \E t \in CmdTexts : Len(text) <= Len(t) /\ SubSeq(t, 1, Len(text)) = text

CmdMayAdd == NodeCount(root) < MaxCmdNodes

CmdViKeys == {Char(c) : c \in {"j", "h", "i", "c", "d", ":"}} \cup {Key("Esc")}
CmdPendingKeys == {Char(c) : c \in {"p", "d", "x"}} \cup {Key("Esc")}
CmdBasicKeys == {Key(c) : c \in {"Esc", "Down", "Delete"}} \cup {Ctrl("s")}
CmdLineKeys == {Key("Enter"), Key("Esc"), Key("Backspace")}
CmdEditKeys == {Key("Esc")}

CmdVi == InVi /\ \E key \in CmdViKeys : KeyEvent(key)
CmdViAdd == InVi /\ CmdMayAdd /\ KeyEvent(Char("o"))
CmdPending == InPending /\ \E key \in CmdPendingKeys : KeyEvent(key)
CmdBasic == InBasic /\ \E key \in CmdBasicKeys : KeyEvent(key)
CmdBasicAdd == InBasic /\ CmdMayAdd /\ KeyEvent(Key("Insert"))
CmdType ==
    /\ InCommand
    /\ \E c \in CmdChars : BeginsCmd(Append(command_buffer, c)) /\ KeyEvent(Char(c))
CmdLine == InCommand /\ \E key \in CmdLineKeys : KeyEvent(key)
CmdEdit == InEdit /\ \E key \in CmdEditKeys : KeyEvent(key)

InitCmd ==
    /\ \E mode \in Modes : AppIs(App_new(DocCmd, mode))
    /\ running = TRUE
    /\ call = NoCall
    /\ result = NoResult

NextCmd ==
    \/ CmdVi
    \/ CmdViAdd
    \/ CmdPending
    \/ CmdBasic
    \/ CmdBasicAdd
    \/ CmdType
    \/ CmdLine
    \/ CmdEdit

SpecCmd == InitCmd /\ [][NextCmd]_vars

(***************************************************************************)
(* SpecAdd: both keymaps with the keys that add an entry, move between     *)
(* the rows and expand or collapse them.                                   *)
(***************************************************************************)
MaxAddNodes == 6   \* a child is added only to a tree of fewer nodes

\* The document loaded: {"b": {}, "z": []}
DocAdd ==
    CObject([k \in {<<"b">>, <<"z">>} |-> IF k = <<"b">> THEN CObject(<<>>) ELSE CArray(<<>>)])

AddMayAdd == NodeCount(root) < MaxAddNodes

AddViKeys == {Char(c) : c \in {"j", "k", " "}}
AddBasicKeys == {Key(c) : c \in {"Down", "Up", "Left", "Right"}} \cup {Ctrl("s")}

AddVi == InVi /\ \E key \in AddViKeys : KeyEvent(key)
AddViAdd == InVi /\ AddMayAdd /\ KeyEvent(Char("o"))
AddBasic == InBasic /\ \E key \in AddBasicKeys : KeyEvent(key)
AddBasicAdd == InBasic /\ AddMayAdd /\ KeyEvent(Key("Insert"))

InitAdd ==
    /\ \E mode \in Modes : AppIs(App_new(DocAdd, mode))
    /\ running = TRUE
    /\ call = NoCall
    /\ result = NoResult

NextAdd ==
    \/ AddVi
    \/ AddViAdd
    \/ AddBasic
    \/ AddBasicAdd

SpecAdd == InitAdd /\ [][NextAdd]_vars

(***************************************************************************)
(* SpecLine: the line editor of Edit state.  A value is edited from each   *)
(* entry point (i at the start, a at the end, cp cleared, cw a word; Enter *)
(* in the linear keymap) and every key of Edit state is pressed; Command   *)
(* state is entered and left.                                              *)
(***************************************************************************)
MaxLine == 3       \* a character is typed into an edit buffer shorter than this
MaxTyped == 1      \* the most characters typed after the sigil of a command
LineChars == {"z"}

\* The document loaded: {"k": "ab"}
DocLine == CObject([k \in {<<"k">>} |-> CString(<<"a", "b">>)])

LineViKeys == {Char(c) : c \in {"j", "h", "i", "a", "c", ":", "/"}}
LinePendingKeys == {Char(c) : c \in {"w", "p", "i"}} \cup {Key("Esc")}
LineBasicKeys == {Key(c) : c \in {"Down", "Enter"}} \cup {Ctrl("f")}
LineCommandKeys == {Key(c) : c \in {"Enter", "Esc", "Backspace"}}
LineStateKeys ==
    {Key(c) : c \in {"Enter", "Esc", "Backspace", "Delete", "Left", "Right", "Home", "End"}}

LineVi == InVi /\ \E key \in LineViKeys : KeyEvent(key)
LinePending == InPending /\ \E key \in LinePendingKeys : KeyEvent(key)
LineBasic == InBasic /\ \E key \in LineBasicKeys : KeyEvent(key)
LineCommand == InCommand /\ \E key \in LineCommandKeys : KeyEvent(key)
LineCommandType ==
    /\ InCommand
    /\ Len(command_buffer) <= MaxTyped
    /\ \E c \in LineChars : KeyEvent(Char(c))
LineType ==
    /\ InEdit
    /\ Len(edit.buffer) < MaxLine
    /\ \E c \in LineChars : KeyEvent(Char(c))
LineKeys == InEdit /\ \E key \in LineStateKeys : KeyEvent(key)

InitLine ==
    /\ \E mode \in Modes : AppIs(App_new(DocLine, mode))
    /\ running = TRUE
    /\ call = NoCall
    /\ result = NoResult

NextLine ==
    \/ LineVi
    \/ LinePending
    \/ LineBasic
    \/ LineCommand
    \/ LineCommandType
    \/ LineType
    \/ LineKeys

SpecLine == InitLine /\ [][NextLine]_vars

(***************************************************************************)
(* SpecFn: the functions of the tree model and of the editor applied on    *)
(* their own, to arguments drawn from bounded sets.  call holds the        *)
(* function and its arguments, result what it returned.                    *)
(***************************************************************************)
MaxLen == 3        \* the longest text generated
MaxItems == 3      \* the most elements of a generated array
MaxTreeSize == 4   \* the most nodes of a generated tree

RECURSIVE TextsUpTo(_, _)
TextsUpTo(chars, n) ==
    IF n = 0 THEN {<<>>}
    ELSE LET shorter == TextsUpTo(chars, n - 1)
         IN  shorter \cup {Append(t, c) : t \in shorter, c \in chars}

F(neg, mant, exp) == [cls |-> "finite", neg |-> neg, mant |-> NatToText(mant), exp |-> exp]

\* 0.5, 1.0, -1.5, 0.25, 100.0, 0.0, -2.0, inf, -inf
FloatValues ==
    {F(FALSE, 5, -1), F(FALSE, 1, 0), F(TRUE, 15, -1), F(FALSE, 25, -2), F(FALSE, 1, 2),
     F(FALSE, 0, 0), F(TRUE, 2, 0), FInf(FALSE), FInf(TRUE)}
IntegerValues == {-12, -1, 0, 7, 10}
StringValues ==
    {<<>>, <<"a">>, <<"1">>, <<"-">>, NullText, BoolText(TRUE), <<"1", ".", "5">>,
     <<"a", " ", "b">>}

ScalarValues ==
    {CNull, CBool(TRUE), CBool(FALSE)}
    \cup {CInteger(i) : i \in IntegerValues}
    \cup {CFloat(f) : f \in FloatValues}
    \cup {CString(t) : t \in StringValues}

\* The elements of the generated arrays and objects
ElementValues ==
    {CNull, CInteger(7), CFloat(F(FALSE, 5, -1)), CString(<<"a">>), CString(<<"b">>),
     CArray(<<CString(<<"c">>)>>)}

RECURSIVE SeqsUpTo(_, _)
SeqsUpTo(S, n) ==
    IF n = 0 THEN {<<>>}
    ELSE LET shorter == SeqsUpTo(S, n - 1)
         IN  shorter \cup {Append(q, x) : q \in shorter, x \in S}

ObjectKeys == {<<"a">>, <<"b">>, <<"B">>}

ArrayValues == {CArray(items) : items \in SeqsUpTo(ElementValues, MaxItems)}
ObjectValues ==
    UNION {{CObject(m) : m \in [ks -> ElementValues]} : ks \in SUBSET ObjectKeys}
ConfigValues == ScalarValues \cup ArrayValues \cup ObjectValues

\* Trees of exactly n nodes for a node with this key at this depth, and
\* sequences of children (from child index i on) of n nodes in all.
ChildKey(kind, i) == IF kind = "Array" THEN IndexKey(i) ELSE <<Lowers[i + 1]>>

RECURSIVE TreesOfSize(_, _, _)
RECURSIVE ForestsOfSize(_, _, _, _)
TreesOfSize(key, depth, n) ==
    IF n = 1
    THEN {TreeNode(key, VString(<<"v">>), TRUE, depth), TreeNode(key, VArray(<<>>), TRUE, depth)}
    ELSE UNION {{TreeNode(key, [kind |-> kind, children |-> cs], e, depth) :
                    e \in BOOLEAN, cs \in ForestsOfSize(kind, depth + 1, 0, n - 1)} :
                   kind \in {"Array", "Object"}}
ForestsOfSize(kind, depth, i, n) ==
    IF n = 0 THEN {<<>>}
    ELSE UNION {{<<t>> \o f : t \in TreesOfSize(ChildKey(kind, i), depth, m),
                              f \in ForestsOfSize(kind, depth, i + 1, n - m)} :
                   m \in 1..n}

Trees == UNION {TreesOfSize(RootKey, 0, n) : n \in 1..MaxTreeSize}

ClassifiedTexts ==
    TextsUpTo({"1", "-", ".", "e", "x"}, MaxLen)
    \cup {NullText, BoolText(TRUE), BoolText(FALSE), <<"i","n","f">>, <<"N","a","N">>,
          <<"N","u","l","l">>, <<"T","R","U","E">>, <<"+","1">>, <<"1","e","+","1">>,
          <<" ","1">>, <<"1",".","5","e","1","0">>}
PreviousNodes ==
    {TreeNode(<<"k">>, v, FALSE, 1) :
        v \in {VNull, VBool(TRUE), VNumber(<<"1">>), VString(<<"x">>)}}

\* The nodes add_child is applied to: scalars and containers of up to
\* MaxAdded children at the depths 0..MaxAddDepth, and the values pushed.
MaxAddDepth == 2
MaxAdded == 1
AddChildNodes ==
    UNION {TreesOfSize(<<"k">>, d, n) : d \in 0..MaxAddDepth, n \in 1..(MaxAdded + 1)}
AddedValues == {VString(<<"v">>), VNull, VObject(<<>>)}

FooBarBaz == <<"f","o","o","_","b","a","r"," ","b","a","z">>
WordTexts == TextsUpTo({"a", "1", "_", " ", "-"}, MaxLen) \cup {FooBarBaz}

Calls ==
    {[fn |-> "round_trip", value |-> v] : v \in ConfigValues}
    \cup {[fn |-> "set_value_from_string", node |-> n, s |-> t] :
             n \in PreviousNodes, t \in ClassifiedTexts}
    \cup {[fn |-> "find_word_bounds", s |-> t, char_pos |-> p] :
             t \in WordTexts, p \in 0..(MaxLen + 1)}
    \cup {[fn |-> "find_word_bounds", s |-> FooBarBaz, char_pos |-> p] : p \in 0..Len(FooBarBaz)}
    \cup {[fn |-> "remove_child", node |-> from_config_value(RootKey, v, 0), index |-> k] :
             v \in ArrayValues \cup ObjectValues \cup {CNull}, k \in 0..MaxItems}
    \cup {[fn |-> "from_root", root |-> t] : t \in Trees}
    \cup {[fn |-> "add_child", node |-> n, key |-> k, value |-> v] :
             n \in AddChildNodes, k \in ObjectKeys, v \in AddedValues}

Returns(v) == result' = [stage |-> "done", value |-> v]
Idle == UNCHANGED <<root, cursor, edit, search, operator, ui_state, command_buffer,
                    show_help, message, input_mode, dirty, running, backend, call>>
Calling(fn) == call.fn = fn /\ result.stage = "none"

\* App::new builds the tree of the value loaded ...
Load ==
    /\ Calling("round_trip")
    /\ result' = [stage |-> "loaded", node |-> from_config_value(RootKey, call.value, 0)]
    /\ Idle

\* ... and save converts it back.
Store ==
    /\ call.fn = "round_trip" /\ result.stage = "loaded"
    /\ Returns(to_config_value(result.node))
    /\ Idle

SetValueFromString ==
    /\ Calling("set_value_from_string")
    /\ Returns(set_value_from_string(call.node, call.s))
    /\ Idle

FindWordBounds ==
    /\ Calling("find_word_bounds")
    /\ Returns(find_word_bounds(call.s, call.char_pos))
    /\ Idle

RemoveChild ==
    /\ Calling("remove_child")
    /\ Returns(remove_child(call.node, call.index))
    /\ Idle

FromRoot ==
    /\ Calling("from_root")
    /\ Returns(from_root(call.root))
    /\ Idle

AddChild ==
    /\ Calling("add_child")
    /\ Returns(add_child(call.node, call.key, call.value))
    /\ Idle

InitFn ==
    /\ AppIs(App_new(CNull, "Vi"))
    /\ running = FALSE
    /\ call \in Calls
    /\ result = NoResult

NextFn ==
    \/ Load
    \/ Store
    \/ SetValueFromString
    \/ FindWordBounds
    \/ RemoveChild
    \/ FromRoot
    \/ AddChild

SpecFn == InitFn /\ [][NextFn]_vars

Done(fn) == call.fn = fn /\ result.stage = "done"

(***************************************************************************)
(* cli.rs and backend/native.rs: the KEY[=VALUE] argument and the lookup   *)
(* of a dotted key.                                                        *)
(***************************************************************************)
\* str::find(c): the index of the first c of s
find(s, c) ==
    IF \E i \in 1..Len(s) : s[i] = c
    THEN Some((CHOOSE i \in 1..Len(s) : s[i] = c /\ \A j \in 1..(i - 1) : s[j] # c) - 1)
    ELSE None

\* str::rfind(c): the index of the last c of s
rfind(s, c) ==
    IF \E i \in 1..Len(s) : s[i] = c
    THEN Some((CHOOSE i \in 1..Len(s) : s[i] = c /\ \A j \in (i + 1)..Len(s) : s[j] # c) - 1)
    ELSE None

\* parse_key_value once the index of the separator is known
split_key_value(kv, idx) ==
    IF idx # None
    THEN <<Slice(kv, 0, idx[1]), Some(Slice(kv, idx[1] + 1, Len(kv)))>>
    ELSE <<kv, None>>

\* parse_key_value that splits at the last '='
parse_key_value_at_last(key_value) ==
    IF key_value = None THEN None
    ELSE Some(split_key_value(key_value[1], rfind(key_value[1], "=")))

\* Cli::parse_key_value; key_value is the Option<String> of the argument
parse_key_value(key_value) ==
    IF key_value = None THEN None
    ELSE Some(split_key_value(key_value[1], find(key_value[1], "=")))

\* str::split(c), collected: the texts between the c's of s, one at least
RECURSIVE split(_, _)
split(s, c) ==
    LET idx == find(s, c)
    IN  IF idx = None THEN <<s>>
        ELSE <<Slice(s, 0, idx[1])>> \o split(Slice(s, idx[1] + 1, Len(s)), c)

\* ConfigValue::get(key) of the prefer crate: the entry of an Object
ConfigValue_get(value, key) ==
    IF value.kind = "Object" /\ key \in DOMAIN value.map THEN Some(value.map[key]) ELSE None

\* The for loop of get, from part i on
RECURSIVE get_parts(_, _, _)
get_parts(current, parts, i) ==
    IF i > Len(parts) THEN Some(current)
    ELSE IF ConfigValue_get(current, parts[i]) = None THEN None
    ELSE get_parts(ConfigValue_get(current, parts[i])[1], parts, i + 1)

\* get that looks the whole key up as one component
NativeBackend_get_unsplit(config, key) == get_parts(config, <<key>>, 1)

\* NativeBackend::get on the document that load returned
NativeBackend_get(config, key) == get_parts(config, split(key, "."), 1)

(***************************************************************************)
(* SpecCli: parse_key_value and NativeBackend::get applied to arguments    *)
(* drawn from bounded sets.                                                *)
(***************************************************************************)
MaxArg == 4        \* the longest KEY[=VALUE] argument generated
MaxKey == 3        \* the longest dotted key generated

Arguments == {None} \cup {Some(t) : t \in TextsUpTo({"a", "=", "."}, MaxArg)}
DottedKeys == TextsUpTo({"a", "b", "."}, MaxKey)

\* {"a": {"b": 1, "": 2, "a": {"b": "x"}}, "b": "x"}, {} and 7
CliInner == CObject([k \in {<<"b">>} |-> CString(<<"x">>)])
CliNested ==
    CObject([k \in {<<"b">>, <<>>, <<"a">>} |->
                IF k = <<"b">> THEN CInteger(1) ELSE IF k = <<>> THEN CInteger(2) ELSE CliInner])
CliDocs ==
    {CObject([k \in {<<"a">>, <<"b">>} |-> IF k = <<"a">> THEN CliNested ELSE CString(<<"x">>)]),
     CObject(<<>>),
     CInteger(7)}

CliCalls ==
    {[fn |-> "parse_key_value", key_value |-> kv] : kv \in Arguments}
    \cup {[fn |-> "get", config |-> d, key |-> k] : d \in CliDocs, k \in DottedKeys}

ParseKeyValue ==
    /\ Calling("parse_key_value")
    /\ Returns(parse_key_value(call.key_value))
    /\ Idle

Get ==
    /\ Calling("get")
    /\ Returns(NativeBackend_get(call.config, call.key))
    /\ Idle

InitCli ==
    /\ AppIs(App_new(CNull, "Vi"))
    /\ running = FALSE
    /\ call \in CliCalls
    /\ result = NoResult

NextCli == ParseKeyValue \/ Get

SpecCli == InitCli /\ [][NextCli]_vars

(***************************************************************************)
(* SpecScalar: a document {"k": v} for each scalar v; the value is edited  *)
(* as a whole field and the edit committed or cancelled as it is.          *)
(***************************************************************************)
ScalarViKeys == {Char(c) : c \in {"j", "i", "a"}}
ScalarBasicKeys == {Key(c) : c \in {"Down", "Enter"}}
ScalarEditKeys == {Key(c) : c \in {"Enter", "Esc"}}

ScalarVi == InVi /\ \E key \in ScalarViKeys : KeyEvent(key)
ScalarBasic == InBasic /\ \E key \in ScalarBasicKeys : KeyEvent(key)
ScalarEdit == InEdit /\ \E key \in ScalarEditKeys : KeyEvent(key)

InitScalar ==
    /\ \E mode \in Modes, v \in ScalarValues :
          AppIs(App_new(CObject([k \in {<<"k">>} |-> v]), mode))
    /\ running = TRUE
    /\ call = NoCall
    /\ result = NoResult

NextScalar ==
    \/ ScalarVi
    \/ ScalarBasic
    \/ ScalarEdit

SpecScalar == InitScalar /\ [][NextScalar]_vars

(***************************************************************************)
(* SpecSave: a document {"a": v, "z": []} in the linear keymap; the value  *)
(* of a is typed anew as a whole field and the document saved, the         *)
(* backend's set succeeding or failing and either entry coming first.      *)
(***************************************************************************)
MaxSaveBuf == 3
SaveChars == {"1", ".", "0"}
\* "", null, false, 0.5
SaveValues == {CString(<<>>), CNull, CBool(FALSE), CFloat(F(FALSE, 5, -1))}
DocSave(v) ==
    CObject([k \in {<<"a">>, <<"z">>} |-> IF k = <<"a">> THEN v ELSE CArray(<<>>)])
SaveBasicKeys == {Key(c) : c \in {"Down", "Up"}} \cup {Ctrl("s")}
SaveEditKeys == {Key(c) : c \in {"Enter", "Esc"}}

SaveBasic == InBasic /\ \E key \in SaveBasicKeys : KeyEvent(key)
\* Enter on the row of a, which opens the editor on its text (on the root or
\* on z it would toggle the expansion, which a save does not read)
SaveStart == InBasic /\ cursor.selected = 1 /\ KeyEvent(Key("Enter"))
SaveEdit == InEdit /\ \E key \in SaveEditKeys : KeyEvent(key)
SaveType ==
    /\ InEdit
    /\ Len(edit.buffer) < MaxSaveBuf
    /\ \E c \in SaveChars : KeyEvent(Char(c))

InitSave ==
    /\ \E v \in SaveValues : AppIs(App_new(DocSave(v), "Basic"))
    /\ running = TRUE
    /\ call = NoCall
    /\ result = NoResult

NextSave ==
    \/ SaveBasic
    \/ SaveStart
    \/ SaveEdit
    \/ SaveType

SpecSave == InitSave /\ [][NextSave]_vars

(***************************************************************************)
(* Properties of the functions (SpecFn)                                    *)
(***************************************************************************)
\* A node without its key
Unkeyed(node) == [node EXCEPT !.key = <<>>]
\* The index before the removal of the child now at position i (0-based)
Former(i, k) == IF i < k THEN i ELSE i + 1

\* C6: removing child k of an Array of n children (k < n) leaves the other
\* n-1 children in their order, the child at every position i keyed "[i]";
\* removing a child of an Object leaves the other children as they were,
\* keys included.
C6_RemoveChildRenumbers ==
    (Done("remove_child") /\ remove_child_ok(call.node, call.index)) =>
        LET was == call.node.value.children
            now == result.value.value.children
        IN  /\ Len(now) = Len(was) - 1
            /\ \A i \in 0..(Len(now) - 1) :
                  IF call.node.value.kind = "Array"
                  THEN /\ Unkeyed(now[i + 1]) = Unkeyed(was[Former(i, call.index) + 1])
                       /\ now[i + 1].key = IndexKey(i)
                  ELSE now[i + 1] = was[Former(i, call.index) + 1]

\* The second of three elements removed: the third becomes "[1]".
C6_Witness ==
    /\ Done("remove_child")
    /\ call.node.value.kind = "Array"
    /\ Len(call.node.value.children) = 3
    /\ call.index = 1
    /\ call.node.value.children[3].key = IndexKey(2)
    /\ result.value.value.children[2].key = IndexKey(1)

\* The paths of all the nodes of a tree
RECURSIVE PathsOf(_)
PathsOf(node) ==
    {<<>>} \cup
    (IF node.value.kind \in {"Array", "Object"}
     THEN UNION {{<<i - 1>> \o p : p \in PathsOf(node.value.children[i])} :
                    i \in 1..Len(node.value.children)}
     ELSE {})
\* The nodes strictly above the node at path p all have expanded = true
AncestorsExpanded(r, p) ==
    \A n \in 0..(Len(p) - 1) : navigate_mut(r, SubSeq(p, 1, n)).expanded
\* Path p comes before path q in document pre-order
RECURSIVE Precedes(_, _)
Precedes(p, q) ==
    IF p = <<>> THEN q # <<>>
    ELSE IF q = <<>> THEN FALSE
    ELSE IF Head(p) # Head(q) THEN Head(p) < Head(q)
    ELSE Precedes(Tail(p), Tail(q))

\* C7: the projection has the root as row 0 whatever its expanded flag, has
\* a row for a node iff all the ancestors of the node are expanded, is in
\* document pre-order, and the path of every row resolves to the node the
\* row shows.
C7_FlattenVisibleInPreorder ==
    Done("from_root") =>
        LET rows == result.value
            r == call.root
        IN  /\ Len(rows) >= 1
            /\ rows[1].path = <<>>
            /\ {rows[i].path : i \in 1..Len(rows)}
                    = {p \in PathsOf(r) : AncestorsExpanded(r, p)}
            /\ \A i, j \in 1..Len(rows) : i < j => Precedes(rows[i].path, rows[j].path)
            /\ \A i \in 1..Len(rows) :
                  rows[i] = FlatNode(navigate_mut(r, rows[i].path), rows[i].path)

\* A tree with a collapsed container below an expanded root: the container
\* has a row, its child has none.
C7_Witness ==
    /\ Done("from_root")
    /\ call.root.expanded
    /\ call.root.value.kind \in {"Array", "Object"}
    /\ \E i \in 1..Len(call.root.value.children) :
          LET c == call.root.value.children[i]
          IN  /\ ~c.expanded
              /\ c.value.kind \in {"Array", "Object"}
              /\ Len(c.value.children) > 0
              /\ \E k \in 1..Len(result.value) : result.value[k].path = <<i - 1>>
              /\ \A k \in 1..Len(result.value) : result.value[k].path # <<i - 1, 0>>

\* C8: to_config_value(from_config_value(v)) = v for every value v; objects
\* are maps, equal when they hold the same key/value pairs.
C8_RoundTrip ==
    (call.fn = "round_trip" /\ result.stage = "done") => result.value = call.value

\* The classification of C9, in its order
Classified(s) ==
    IF s = NullText THEN VNull
    ELSE IF s \in {BoolText(TRUE), BoolText(FALSE)} THEN VBool(s = BoolText(TRUE))
    ELSE IF parse_i64(s) # None THEN VNumber(s)
    ELSE IF parse_f64(s) # None THEN VNumber(s)
    ELSE VString(s)

\* C9: set_value_from_string stores Null for "null", Bool for "true" and
\* "false", Number for a text that parses as an integer, Number for a text
\* that parses as a float, String for any other text; Number and String hold
\* the text unchanged and the previous value of the node plays no part.
C9_SetValuePrecedence ==
    Done("set_value_from_string") => result.value.value = Classified(call.s)

\* A text that parses as a float and not as an integer, set on a Bool node
C9_Witness ==
    /\ Done("set_value_from_string")
    /\ call.node.value.kind = "Bool"
    /\ parse_i64(call.s) = None
    /\ parse_f64(call.s) # None
    /\ result.value.value = VNumber(call.s)

\* The call is find_word_bounds at a position on a word character
OnWordChar ==
    /\ Done("find_word_bounds")
    /\ call.char_pos < Len(call.s)
    /\ is_word_char(call.s[call.char_pos + 1])

\* C10: at a position on a word character the span (start, end) is the
\* maximal run of word characters around the position: start <= position <
\* end, all of [start, end) are word characters, the characters just before
\* start and at end are not; "foo_bar baz" at position 2 gives (0, 7).
C10_WordSpanMaximal ==
    OnWordChar =>
        LET s == call.s
            start == result.value[1]
            end == result.value[2]
        IN  /\ start <= call.char_pos /\ call.char_pos < end /\ end <= Len(s)
            /\ \A i \in start..(end - 1) : is_word_char(s[i + 1])
            /\ start > 0 => ~is_word_char(s[start])
            /\ end < Len(s) => ~is_word_char(s[end + 1])
            /\ (s = FooBarBaz /\ call.char_pos = 2) => result.value = <<0, 7>>

C10_Witness ==
    /\ OnWordChar
    /\ call.s = FooBarBaz
    /\ call.char_pos = 2
    /\ result.value = <<0, 7>>

(***************************************************************************)
(* Properties of the search jumps (SpecSearch) and of the edits (SpecEdit) *)
(***************************************************************************)
\* A key event that jumps to the next or the previous search result
SearchJump ==
    \/ InVi /\ \E key \in {Char("n"), Char("N")} : KeyEvent(key)
    \/ InBasic /\ KeyEvent(Key("F3"))

\* C2: after a jump to the next or previous search result (n, N, F3)
\* cursor.selected is a valid row of the current projection, whatever was
\* collapsed, toggled, deleted or added since the search was submitted.
C2_SearchJumpSelectedValid == [][SearchJump => SelectedValid(App)']_vars

\* The children of every Object below node are in ascending key order
RECURSIVE ObjectsSorted(_)
ObjectsSorted(node) ==
    is_expandable(node) =>
        LET cs == node.value.children
        IN  /\ node.value.kind = "Object" =>
                  \A i, j \in 1..Len(cs) : i < j => StrCmp(cs[i].key, cs[j].key) <= 0
            /\ \A i \in 1..Len(cs) : ObjectsSorted(cs[i])

\* C4: in every reachable state the children of every Object node are in
\* ascending key order.
C4_ObjectChildrenSorted == ObjectsSorted(root)

\* The i-th child of every Array below node has the key "[i]"
RECURSIVE ArraysIndexed(_)
ArraysIndexed(node) ==
    is_expandable(node) =>
        LET cs == node.value.children
        IN  /\ node.value.kind = "Array" => \A i \in 1..Len(cs) : cs[i].key = IndexKey(i - 1)
            /\ \A i \in 1..Len(cs) : ArraysIndexed(cs[i])

\* C5: in every reachable state the i-th child of every Array node has the
\* key "[i]".
C5_ArrayKeysAreIndices == ArraysIndexed(root)

\* The call is find_word_bounds at a position on a character that is no
\* word character
OffWordChar ==
    /\ Done("find_word_bounds")
    /\ call.char_pos < Len(call.s)
    /\ ~is_word_char(call.s[call.char_pos + 1])

\* C11: at a position on a non-word character the span is the single
\* character at the position, (position, position + 1), also when the
\* character before it is a word character.
C11_NonWordSpanIsSingleChar ==
    OffWordChar => result.value = <<call.char_pos, call.char_pos + 1>>

(***************************************************************************)
(* Properties of the edits of words and fields (SpecWord)                  *)
(***************************************************************************)
\* Enter in Edit state
CommitStep == InEdit /\ KeyEvent(Key("Enter"))

\* The path of the selected row
SelectedPath == flattened(App)[cursor.selected + 1].path

\* original[0..start] + buffer + original[end..] for a word-level edit, the
\* buffer for a whole-field edit
Spliced ==
    IF edit.word_range = None THEN edit.buffer
    ELSE SubSeq(edit.original, 1, edit.word_range[1][1])
         \o edit.buffer
         \o SubSeq(edit.original, edit.word_range[1][2] + 1, Len(edit.original))

\* C12: a commit writes original[0..start] + buffer + original[end..] for a
\* word-level edit and the buffer for a whole-field edit, as the key of the
\* selected node when editing_key is true and else as the value the
\* classification of set_value_from_string gives; dirty becomes true.
C12_CommitSplices ==
    [][CommitStep =>
         LET n == navigate_mut(root, SelectedPath)
         IN  /\ root' = replace_at(root, SelectedPath,
                                   IF edit.editing_key
                                   THEN [n EXCEPT !.key = Spliced]
                                   ELSE [n EXCEPT !.value = Classified(Spliced)])
             /\ dirty' = TRUE]_vars

\* The word b of the value "a b" was changed to z: the value is "a z".
C12_Witness ==
    /\ message = Msg("Value updated (unsaved)", <<>>)
    /\ root.value.children[1].value = VString(<<"a", " ", "z">>)

\* A key event of Edit state other than Enter
EditingStep ==
    /\ InEdit
    /\ \/ \E key \in WordStateKeys \ {Key("Enter")} : KeyEvent(key)
       \/ \E c \in WordChars : KeyEvent(Char(c))
\* Esc in Edit state
CancelStep == InEdit /\ KeyEvent(Key("Esc"))

\* C13: no key of Edit state other than Enter (insertions, deletions, cursor
\* moves, Esc) changes the tree, the dirty flag or the cursor, so they are at
\* a cancel what they were when the edit started; Esc also empties the edit
\* state and returns to Normal state.
C13_CancelLeavesTree ==
    [][/\ EditingStep => (root' = root /\ dirty' = dirty /\ cursor' = cursor)
       /\ CancelStep => (edit' = EditState_default /\ ui_state' = "Normal")]_vars

\* An edit of the loaded document was cancelled.
C13_Witness ==
    /\ message = Msg("Edit cancelled", <<>>)
    /\ ui_state = "Normal"
    /\ edit = EditState_default
    /\ ~dirty
    /\ root = App_new(DocWord, "Vi").root

(***************************************************************************)
(* Properties of the search (SpecSearch)                                   *)
(***************************************************************************)
\* Enter in Command state on "/" followed by a query that is not empty.
\* execute_command always ends in Normal state and keeps the command line,
\* which no other key of Command state does.
SubmitSearchStep ==
    /\ InCommand
    /\ Len(command_buffer) > 1
    /\ Head(command_buffer) = "/"
    /\ ui_state' = "Normal"
    /\ command_buffer' = command_buffer
    /\ KeyEvent(Key("Enter"))

\* Text t, lower-cased, has the lower-cased q as a substring
Within(q, t) ==
    \E i \in 1..(Len(t) - Len(q) + 1) :
        \A k \in 1..Len(q) : LowerOfChar(t[i + k - 1]) = LowerOfChar(q[k])

\* The rows of the projection rows whose key or value preview contains q
MatchingRows(rows, q) ==
    {i \in 0..(Len(rows) - 1) :
        Within(q, rows[i + 1].key) \/ Within(q, rows[i + 1].value_preview)}

\* results lists hits in ascending order
Ascending(results, hits) ==
    /\ {results[i] : i \in 1..Len(results)} = hits
    /\ \A i \in 1..(Len(results) - 1) : results[i] < results[i + 1]

\* The outcome of a search whose matching rows are hits
Searched(hits) ==
    /\ Ascending(search'.results, hits)
    /\ search'.index = 0
    /\ IF hits # {}
       THEN cursor'.selected = search'.results[1]
       ELSE /\ cursor'.selected = cursor.selected
            /\ message' = Msg("No matches found", <<>>)

\* C14: submitting a query that is not empty leaves in search.results the
\* rows of the projection whose lower-cased key or value preview contains
\* the lower-cased query, in ascending order, and search.index = 0; the
\* first of them is selected, or with no match the selection stays and the
\* message says that nothing matched.
C14_SearchCollectsMatches ==
    [][SubmitSearchStep =>
         Searched(MatchingRows(flattened(App), Tail(command_buffer)))]_vars

\* The query A was submitted and matched two rows; the first is selected.
C14_Witness ==
    /\ search.query = <<"A">>
    /\ Len(search.results) = 2
    /\ search.index = 0
    /\ cursor.selected = search.results[1]
    /\ message = Msg("Found {} match(es)", <<"2">>)

NextResultStep == (InVi /\ KeyEvent(Char("n"))) \/ (InBasic /\ KeyEvent(Key("F3")))
PrevResultStep == InVi /\ KeyEvent(Char("N"))

\* k applications of next_search_result
RECURSIVE NextTimes(_, _)
NextTimes(a, k) == IF k = 0 THEN a ELSE NextTimes(next_search_result(a), k - 1)

\* next after prev, prev after next and Len(results) nexts give back the index
SearchCycles ==
    /\ next_search_result(prev_search_result(App)).search.index = search.index
    /\ prev_search_result(next_search_result(App)).search.index = search.index
    /\ NextTimes(App, Len(search.results)).search.index = search.index

\* The index moved by d modulo the length of the result list
IndexMovedBy(d) ==
    LET L == Len(search.results)
    IN  IF L = 0
        THEN search'.index = search.index /\ cursor'.selected = cursor.selected
        ELSE /\ search'.index = (search.index + d) % L
             /\ cursor'.selected = search.results[search'.index + 1]

\* C15: with a result list of length L > 0, next moves search.index to
\* (index + 1) mod L and prev to (index - 1) mod L, each selecting
\* results[index]; next after prev and prev after next restore the index, L
\* nexts return to the start, neither changes the result list; with an empty
\* list both leave index and selection unchanged.
C15_SearchIndexCycles ==
    /\ []SearchCycles
    /\ [][/\ NextResultStep => (IndexMovedBy(1) /\ search'.results = search.results)
          /\ PrevResultStep => (IndexMovedBy(-1) /\ search'.results = search.results)]_vars

\* prev from the first of three results wrapped to the last one
C15_Witness ==
    /\ Len(search.results) = 3
    /\ search.index = 2
    /\ cursor.selected = search.results[3]
    /\ search.query = <<"A">>

\* Escape in the Normal state of the modal keymap, an operator pending or not
ViEscapeStep == ui_state = "Normal" /\ input_mode = "Vi" /\ KeyEvent(Key("Esc"))

\* C18: in the modal keymap's Normal state Escape, also while an operator is
\* pending, leaves no pending operator, an empty motion, show_help = FALSE and
\* an empty search result list.
C18_EscapeClearsAll ==
    [][ViEscapeStep =>
         /\ operator' = OperatorState_default
         /\ show_help' = FALSE
         /\ search'.results = <<>>]_vars

(***************************************************************************)
(* Properties of the operators c and d (SpecWord)                          *)
(***************************************************************************)
WordMotions == {<<"w">>, <<"i", "w">>, <<"a", "w">>}
FieldMotions == {<<"p">>, <<"i", "p">>, <<"a", "p">>}

\* The App a key event starts from: the loop has emptied the message slot
Cleared == [App EXCEPT !.message = None]

\* The step left the App that action made, with the operator state reset
Fired(made) == Becomes([made EXCEPT !.operator = OperatorState_default])

\* The step ran no action: it left a message and reset the operator state
Rejected ==
    /\ message' # None
    /\ Becomes([App EXCEPT !.message = message', !.operator = OperatorState_default])

\* What the table gives for operator op once the motion typed is m
Completes(op, m) ==
    CASE op = "c" /\ m \in WordMotions -> Fired(start_edit_word(Cleared, TRUE))
      [] op = "c" /\ m \in FieldMotions ->
            Fired(IF cursor.cursor_on_value THEN start_edit_value(Cleared, FALSE, TRUE)
                  ELSE start_edit_key(Cleared, TRUE))
      [] op = "d" /\ m = <<"d">> -> Fired(delete_current(Cleared))
      [] op = "d" /\ m \in WordMotions -> Fired(delete_word(Cleared))
      [] op = "d" /\ m \in FieldMotions /\ cursor.cursor_on_value -> Fired(clear_value(Cleared))
      [] OTHER -> Rejected

\* A character typed while operator op is pending, the motion becoming m
MotionTyped(op, m) ==
    IF m \in CompleteMotions THEN Completes(op, m)
    ELSE IF Len(m) >= 2 THEN Rejected
    ELSE Becomes([Cleared EXCEPT !.operator.motion = m])

\* C19: c or d in Normal state arms pending_op with an empty motion; every
\* character typed after it is appended to the motion; when the motion is
\* one of d, w, p, iw, aw, ip, ap the action of (operator, motion) is applied
\* once (c + word motion: change word, c + field motion: change field, dd:
\* delete row, d + word motion: delete word, d + field motion on a value:
\* clear the value); a two-character motion outside the table applies no
\* action and sets a message; either way pending_op and motion are reset.
C19_OperatorMotionTable ==
    [][/\ \A c \in {"c", "d"} :
            (InVi /\ KeyEvent(Char(c))) =>
                Becomes([Cleared EXCEPT !.operator = [pending_op |-> Some(c), motion |-> <<>>]])
       /\ \A ch \in {"w", "p", "i", "a", "d", "x"} :
            (InPending /\ KeyEvent(Char(ch))) =>
                MotionTyped(operator.pending_op[1], Append(operator.motion, ch))]_vars

\* d, i, w deleted the word under the cursor: "a b" became "b"
C19_Witness ==
    /\ message = Msg("Word deleted (unsaved)", <<>>)
    /\ operator = OperatorState_default
    /\ root.value.children[1].value = VString(<<"b">>)
    /\ dirty

\* The motion ix was rejected
C19_WitnessRejected ==
    /\ message = Msg("Unknown motion: {}", <<"i", "x">>)
    /\ operator = OperatorState_default

(***************************************************************************)
(* Properties of quitting and saving (SpecCmd)                             *)
(***************************************************************************)
\* Enter on the command line holding one of texts
Submitted(texts) == InCommand /\ command_buffer \in texts /\ KeyEvent(Key("Enter"))

QuitTexts == {<<":", "q">>, <<":", "q", "u", "i", "t">>}
ForceQuitTexts == {<<":", "q", "!">>}
WriteTexts == {<<":", "w">>, <<":", "w", "r", "i", "t", "e">>}
WriteQuitTexts == {<<":", "w", "q">>, <<":", "x">>}

\* The step saved the document
SaveSucceeded == dirty' = FALSE /\ message' = Msg("Saved", <<>>)
\* The step tried to save and the backend refused
SaveFailed == dirty' = dirty /\ message' = Msg("Save failed: {}", <<>>)

\* C16: in the modal keymap, while the document is dirty, the loop ends on
\* no input but a submitted :q!, or a submitted :wq or :x whose save
\* succeeded; a submitted :q or :quit is refused with a message, and goes
\* through once a :w or :write has succeeded and left the document not dirty.
C16_ModalQuitGuard ==
    [][input_mode = "Vi" =>
         /\ (dirty /\ running /\ ~running') =>
                \/ Submitted(ForceQuitTexts)
                \/ Submitted(WriteQuitTexts) /\ SaveSucceeded
         /\ (dirty /\ Submitted(QuitTexts)) =>
                /\ running'
                /\ dirty'
                /\ message' = Msg("Unsaved changes! Use :q! to force or :wq to save", <<>>)
         /\ (dirty /\ Submitted(ForceQuitTexts)) => ~running'
         /\ (dirty /\ Submitted(WriteQuitTexts)) =>
                (SaveSucceeded /\ ~running') \/ (SaveFailed /\ running')
         /\ (dirty /\ Submitted(WriteTexts)) => (running' /\ (SaveSucceeded \/ SaveFailed))
         /\ (~dirty /\ Submitted(QuitTexts)) => ~running']_vars

\* :q was refused on a dirty document in the modal keymap
C16_Witness ==
    /\ input_mode = "Vi"
    /\ running
    /\ dirty
    /\ command_buffer \in QuitTexts
    /\ message = Msg("Unsaved changes! Use :q! to force or :wq to save", <<>>)

\* :wq saved a document that was changed, and the loop ended
C16_WitnessSavedAndQuit ==
    /\ input_mode = "Vi"
    /\ ~running
    /\ ~dirty
    /\ command_buffer \in WriteQuitTexts
    /\ message = Msg("Saved", <<>>)
    /\ root # App_new(DocCmd, "Vi").root

\* What Esc does to the present state
EscapePressed == run_app_step(App, Key("Esc"), [set_ok |-> TRUE, pick |-> 0])
UnsavedWarning == Msg("Unsaved changes! Press Esc again or Ctrl+S to save", <<>>)

\* C17: in the linear keymap with a dirty document, the first Esc in Normal
\* state is refused with a warning and the loop goes on; a second Esc right
\* after it ends the loop, and so does an Esc after a successful Ctrl+S.
C17_LinearQuitGuard ==
    (InBasic /\ running) =>
        /\ (dirty /\ message # UnsavedWarning) =>
              (~EscapePressed.quit /\ EscapePressed.app.message = UnsavedWarning)
        /\ (dirty /\ message = UnsavedWarning) => EscapePressed.quit
        /\ (message = Msg("Saved", <<>>)) => EscapePressed.quit

(***************************************************************************)
(* Properties of the operations that are refused (SpecCmd)                 *)
(***************************************************************************)
\* What key does to the present state (no key below reaches a save)
Pressed(key) == run_app_step(App, key, [set_ok |-> TRUE, pick |-> 0])

\* r left a message and the tree, dirty and the selection alone, did not
\* enter Edit state and did not end the loop
Refused(r) ==
    /\ r.app.message # None
    /\ r.app.root = root
    /\ r.app.dirty = dirty
    /\ r.app.cursor.selected = cursor.selected
    /\ r.app.ui_state # "Edit"
    /\ ~r.quit

OnRoot == SelectedPath = <<>>
OnContainer == is_expandable(navigate_mut(root, SelectedPath))
Pending(op) == InPending /\ operator = [pending_op |-> Some(op), motion |-> <<>>]

KnownCommands == QuitTexts \cup ForceQuitTexts \cup WriteTexts \cup WriteQuitTexts
MotionChars == {"p", "w", "d", "i", "a", "x"}

\* C20: renaming the root, starting a value edit on a container, deleting
\* the root, adding a child to a scalar row, submitting an unknown : command
\* and typing an unknown operator motion each set the message and leave the
\* tree, dirty and cursor.selected as they were, do not enter Edit state and
\* do not end the loop.
C20_InvalidOperationsRefused ==
    running =>
        /\ (Pending("c") /\ ~cursor.cursor_on_value /\ OnRoot) =>
              \A ch \in {"p", "w"} : Refused(Pressed(Char(ch)))
        /\ (InVi /\ OnContainer) =>
              \A ch \in {"i", "a"} : Refused(Pressed(Char(ch)))
        /\ (Pending("c") /\ cursor.cursor_on_value /\ OnContainer) =>
              \A ch \in {"p", "w"} : Refused(Pressed(Char(ch)))
        /\ (Pending("d") /\ OnRoot) => Refused(Pressed(Char("d")))
        /\ (InBasic /\ OnRoot) => Refused(Pressed(Key("Delete")))
        /\ (InVi /\ ~OnContainer) => Refused(Pressed(Char("o")))
        /\ (InBasic /\ ~OnContainer) => Refused(Pressed(Key("Insert")))
        /\ (InCommand /\ Head(command_buffer) = ":" /\ command_buffer \notin KnownCommands) =>
              Refused(Pressed(Key("Enter")))
        /\ InPending =>
              \A ch \in MotionChars :
                  (/\ Append(operator.motion, ch) \notin CompleteMotions
                   /\ Len(operator.motion) >= 1) => Refused(Pressed(Char(ch)))

\* c p on the key of the root was refused, the document being dirty
C20_Witness ==
    /\ message = Msg("Cannot rename root", <<>>)
    /\ ui_state = "Normal"
    /\ dirty
    /\ running

(***************************************************************************)
(* Properties of a save (SpecCmd)                                          *)
(***************************************************************************)
\* The environments in which the backend's set returns an error
FailingEnvs == {env \in Envs : ~env.set_ok}

\* save reaches the backend's set: the root is an Object that has an entry
SetReached == root.value.kind = "Object" /\ root.value.children # <<>>

\* r kept dirty and the tree, reported the failure and did not end the loop
SaveRefused(r) ==
    /\ r.app.dirty = dirty
    /\ r.app.root = root
    /\ r.app.message = Msg("Save failed: {}", <<>>)
    /\ ~r.quit

\* C21: when the backend's set fails during a save (Ctrl+S, :w, :write,
\* :wq, :x) dirty and the tree are unchanged, the message shows the
\* failure and the loop continues; :wq and :x do not quit.
C21_FailedSaveKeepsDirty ==
    (running /\ SetReached) =>
        \A env \in FailingEnvs :
            /\ InBasic => SaveRefused(run_app_step(App, Ctrl("s"), env))
            /\ (InCommand /\ command_buffer \in WriteTexts \cup WriteQuitTexts) =>
                  SaveRefused(run_app_step(App, Key("Enter"), env))

\* :wq or :x on a dirty document met a failing set: still dirty, still running
C21_Witness ==
    /\ running
    /\ dirty
    /\ command_buffer \in WriteQuitTexts
    /\ message = Msg("Save failed: {}", <<>>)
    /\ backend # None
    /\ ~backend[1].ok

(***************************************************************************)
(* Properties of the message slot (SpecCmd)                                *)
(***************************************************************************)
\* The keys tried on the present state
KeysHere ==
    IF InVi THEN CmdViKeys \cup {Char("o"), Key("Tab")}
    ELSE IF InPending THEN CmdPendingKeys \cup {Key("Tab")}
    ELSE IF InBasic THEN CmdBasicKeys \cup {Key("Insert"), Key("Tab")}
    ELSE IF InCommand THEN CmdLineKeys \cup {Char("q"), Key("Tab")}
    ELSE CmdEditKeys \cup {Key("Enter"), Key("Tab")}

\* The message in the slot after key, handled with the slot holding msg before
MessageAfter(msg, key, env) == run_app_step([App EXCEPT !.message = msg], key, env).app.message

\* C22: the message slot is emptied at the start of handling every key
\* event: after a step it holds nothing or the message that step produced,
\* which is the message the step leaves when the slot was empty before it;
\* a message of an earlier step does not outlast a later key event.
C22_MessageIsOfLastStep ==
    (running /\ message # None) =>
        \A key \in KeysHere : \A env \in EnvsFor(key) :
            MessageAfter(message, key, env) = MessageAfter(None, key, env)

\* o left its message, and the : typed after it emptied the slot
C22_Witness ==
    /\ running
    /\ dirty
    /\ InCommand
    /\ command_buffer = <<":">>
    /\ message = None
    /\ Len(root.value.children) = 2

\* r is the return of a save that invoked the backend's set and got ok
ConfirmedWrite(r, env) == SetReached /\ env.set_ok /\ r.app.backend # None

\* C23: a save never clears dirty without a write that was confirmed: the
\* backend's set was invoked and returned ok.  Whenever dirty is false the
\* tree is as loaded or as last written that way, also when the root is an
\* empty object.
C23_CleanMeansWritten ==
    (running /\ dirty) =>
        \A env \in Envs :
            /\ InBasic =>
                  (~run_app_step(App, Ctrl("s"), env).app.dirty =>
                       ConfirmedWrite(run_app_step(App, Ctrl("s"), env), env))
            /\ (InCommand /\ command_buffer \in WriteTexts \cup WriteQuitTexts) =>
                  (~run_app_step(App, Key("Enter"), env).app.dirty =>
                       ConfirmedWrite(run_app_step(App, Key("Enter"), env), env))

(***************************************************************************)
(* Properties of the command line and of the native backend (SpecCli)      *)
(***************************************************************************)
HasEquals(t) == \E i \in 1..Len(t) : t[i] = "="

\* C24: parse_key_value gives None for an absent argument, (argument, None)
\* for one without '=', and otherwise (key, Some(value)) with key free of
\* '=' and key + "=" + value the argument, so that later '=' stay in value.
C24_KeyValueSplitsAtFirstEquals ==
    Done("parse_key_value") =>
        IF call.key_value = None THEN result.value = None
        ELSE /\ result.value # None
             /\ IF HasEquals(call.key_value[1])
                THEN /\ result.value[1][2] # None
                     /\ ~HasEquals(result.value[1][1])
                     /\ result.value[1][1] \o <<"=">> \o result.value[1][2][1]
                            = call.key_value[1]
                ELSE result.value[1] = <<call.key_value[1], None>>

\* a=.= gives the key a and the value .=
C24_Witness ==
    /\ Done("parse_key_value")
    /\ call.key_value = Some(<<"a", "=", ".", "=">>)
    /\ result.value = Some(<<(<<"a">>), Some(<<".", "=">>)>>)

HasDot(t) == \E i \in 1..Len(t) : t[i] = "."
FirstDot(t) == CHOOSE i \in 1..Len(t) : t[i] = "." /\ \A j \in 1..(i - 1) : t[j] # "."

\* The entry named name of value, if value is an Object that has it
Entry(value, name) ==
    IF value.kind = "Object" /\ name \in DOMAIN value.map THEN <<value.map[name]>> ELSE <<>>

\* The value reached from value by the components of key, one at a time
RECURSIVE Descend(_, _)
Descend(value, key) ==
    IF ~HasDot(key) THEN Entry(value, key)
    ELSE IF Entry(value, SubSeq(key, 1, FirstDot(key) - 1)) = <<>> THEN <<>>
    ELSE Descend(Entry(value, SubSeq(key, 1, FirstDot(key) - 1))[1],
                 SubSeq(key, FirstDot(key) + 1, Len(key)))

\* C25: get with a dotted key k1.k2...kn returns the value reached by
\* descending through the document one component at a time, and None as
\* soon as a component is missing.
C25_GetDescendsByComponent ==
    Done("get") => result.value = Descend(call.config, call.key)

\* a.b reaches the 1 under "a"
C25_Witness ==
    /\ Done("get")
    /\ call.key = <<"a", ".", "b">>
    /\ call.config.kind = "Object"
    /\ result.value = Some(CInteger(1))

\* b.a finds no "a" under the text at "b"
C25_WitnessMissing ==
    /\ Done("get")
    /\ call.key = <<"b", ".", "a">>
    /\ call.config.kind = "Object"
    /\ result.value = None

(***************************************************************************)
(* Properties of a quit request (SpecCmd)                                  *)
(***************************************************************************)
\* r ended the loop iff the document was not dirty; if it was, r warned and
\* kept the tree and dirty
QuitAnswered(r) ==
    /\ r.quit = ~dirty
    /\ dirty => (r.app.message # None /\ r.app.root = root /\ r.app.dirty)

\* C26: a quit request (:q or :quit in the modal keymap, Esc in the Normal
\* state of the linear keymap) ends the loop in that step iff dirty is
\* false; with dirty true it sets a warning, keeps the tree and dirty, and
\* the loop continues.
C26_QuitIffClean ==
    running =>
        /\ (InCommand /\ input_mode = "Vi" /\ command_buffer \in QuitTexts) =>
              QuitAnswered(Pressed(Key("Enter")))
        /\ InBasic => QuitAnswered(Pressed(Key("Esc")))

\* Esc was refused in the linear keymap on a dirty document
C26_Witness ==
    /\ running
    /\ InBasic
    /\ dirty
    /\ message = UnsavedWarning

\* :q ended the loop on a document that was saved after a change
C26_WitnessQuit ==
    /\ ~running
    /\ ~dirty
    /\ command_buffer \in QuitTexts
    /\ backend # None

(***************************************************************************)
(* Properties of the row and column motions (Spec)                         *)
(***************************************************************************)
\* The row d rows from the selected one if the projection has it, else the
\* selected one
RowMovedBy(d) ==
    IF cursor.selected + d \in 0..(Len(flattened(App)) - 1)
    THEN cursor.selected + d
    ELSE cursor.selected

\* a selects the row d rows away, or the same row at the boundary, at column 0
MovedRows(a, d) == a.cursor.selected = RowMovedBy(d) /\ a.cursor.cursor_pos = 0

\* C27: move_down and move_up change cursor.selected by exactly one row
\* inside [0, len - 1] and leave it at the boundary, and cursor_pos is 0
\* afterwards in both cases, also when the row did not change.
C27_RowMotionResetsColumn ==
    running =>
        /\ InVi => (MovedRows(Pressed(Char("j")).app, 1) /\ MovedRows(Pressed(Char("k")).app, -1))
        /\ InBasic => (MovedRows(Pressed(Key("Down")).app, 1) /\ MovedRows(Pressed(Key("Up")).app, -1))

\* The last column of the text in focus
LastColumn == SatSub(current_word_len(App), 1)

\* a differs from the present state (its message emptied) in the focus only:
\* it is on the key or on the value, on the same row
FocusSwitched(a, on_value) ==
    /\ a.cursor.cursor_on_value = on_value
    /\ a.cursor.selected = cursor.selected
    /\ [a EXCEPT !.cursor = cursor] = Cleared

\* h and l away from an edge: cursor_pos changes by one and nothing else
ColumnStep ==
    /\ cursor.cursor_pos > 0 =>
          Pressed(Char("h")).app = [Cleared EXCEPT !.cursor.cursor_pos = @ - 1]
    /\ cursor.cursor_pos < LastColumn =>
          Pressed(Char("l")).app = [Cleared EXCEPT !.cursor.cursor_pos = @ + 1]

\* h at column 0 on the value, l at the last column on the key: the focus
\* goes to the other text of the same row (to column 0 of the value)
FocusStep ==
    /\ (cursor.cursor_pos = 0 /\ cursor.cursor_on_value) =>
          FocusSwitched(Pressed(Char("h")).app, FALSE)
    /\ (cursor.cursor_pos = LastColumn /\ ~cursor.cursor_on_value) =>
          /\ FocusSwitched(Pressed(Char("l")).app, TRUE)
          /\ Pressed(Char("l")).app.cursor.cursor_pos = 0

\* l at the last column on the value expands the current row
ExpandStep ==
    (cursor.cursor_pos = LastColumn /\ cursor.cursor_on_value) =>
        /\ Pressed(Char("l")).app = expand_current(Cleared)
        /\ Pressed(Char("l")).app.cursor.selected = cursor.selected

\* C28: column motions at an edge keep the selected row and switch focus:
\* move_left at column 0 goes from the value to the key of the same row and
\* on the key collapses the current row; move_right at the last column goes
\* from the key to column 0 of the value and on the value expands the
\* current row; away from an edge they change cursor_pos by one only.
C28_EdgeMotionsKeepRow ==
    (running /\ InVi) =>
        /\ ColumnStep
        /\ FocusStep
        /\ ExpandStep
        /\ (cursor.cursor_pos = 0 /\ ~cursor.cursor_on_value) =>
              /\ Pressed(Char("h")).app = collapse_current(Cleared)
              /\ Pressed(Char("h")).app.cursor.selected = cursor.selected

\* C28 as the code has it: move_left at column 0 on the key hands over to
\* collapse_current, which keeps the row only when it collapses an expanded
\* container; every other edge motion keeps the selected row.
C28_EdgeMotions ==
    (running /\ InVi) =>
        /\ ColumnStep
        /\ FocusStep
        /\ ExpandStep
        /\ (cursor.cursor_pos = 0 /\ ~cursor.cursor_on_value) =>
              /\ Pressed(Char("h")).app = collapse_current(Cleared)
              /\ is_expandable(navigate_mut(root, SelectedPath))
                   /\ navigate_mut(root, SelectedPath).expanded =>
                     Pressed(Char("h")).app.cursor.selected = cursor.selected

\* h at column 0 of the value of the second row put the focus on its key
C28_Witness ==
    /\ running
    /\ InVi
    /\ cursor.selected = 1
    /\ ~cursor.cursor_on_value
    /\ cursor.cursor_pos = 0
    /\ Len(flattened(App)[2].key) = 1

\* The node of the selected row
SelectedNode == navigate_mut(root, SelectedPath)
ParentPath == SubSeq(SelectedPath, 1, Len(SelectedPath) - 1)

\* What collapse_current makes of the present state, its message emptied
Collapsed(a) ==
    IF is_expandable(SelectedNode) /\ SelectedNode.expanded
    THEN a = [Cleared EXCEPT
                 !.root = replace_at(root, SelectedPath, [SelectedNode EXCEPT !.expanded = FALSE])]
    ELSE IF SelectedPath # <<>>
    THEN /\ [a EXCEPT !.cursor.selected = cursor.selected] = Cleared
         /\ flattened(App)[a.cursor.selected + 1].path = ParentPath
    ELSE a = Cleared

\* C29: collapse_current on an expanded container row sets only that node's
\* expanded flag to false and keeps the selection; on a collapsed or scalar
\* row other than the root it changes no flag and selects the row whose
\* path is the current path without its last element; on a collapsed root
\* it changes nothing.
C29_CollapseOrGoToParent ==
    running =>
        /\ InBasic => Collapsed(Pressed(Key("Left")).app)
        /\ (InVi /\ cursor.cursor_pos = 0 /\ ~cursor.cursor_on_value) =>
              Collapsed(Pressed(Char("h")).app)

\* Left collapsed the array at "a", which stays selected
C29_Witness ==
    /\ running
    /\ InBasic
    /\ SelectedPath = <<0>>
    /\ is_expandable(SelectedNode)
    /\ ~SelectedNode.expanded
    /\ Len(flattened(App)) = 2

(***************************************************************************)
(* Properties of adding an entry (SpecAdd)                                 *)
(***************************************************************************)
\* The entry add_new_key adds, under a node at depth
NewEntry(key, depth) == TreeNode(key, VString(NewValueText), FALSE, depth + 1)

\* kids lists in ascending key order
SortedByKey(kids) == \A i \in 1..(Len(kids) - 1) : StrCmp(kids[i].key, kids[i + 1].key) <= 0

\* kids is before with entry put in at some place
PutIn(kids, before, entry) ==
    \E i \in 1..Len(kids) :
        /\ kids[i] = entry
        /\ SubSeq(kids, 1, i - 1) \o SubSeq(kids, i + 1, Len(kids)) = before

\* a is the present state after an entry was added to the selected container
Added(a) ==
    LET before == SelectedNode.value.children
        after == navigate_mut(a.root, SelectedPath)
    IN  /\ after.expanded
        /\ a.dirty
        /\ a.cursor.selected = cursor.selected
        /\ flattened(a)[a.cursor.selected + 1].path = SelectedPath
        /\ IF SelectedNode.value.kind = "Object"
           THEN /\ PutIn(after.value.children, before, NewEntry(NewKeyText, SelectedNode.depth))
                /\ SortedByKey(after.value.children)
           ELSE after.value.children =
                    Append(before, NewEntry(<<"[">> \o NatToText(Len(before)) \o <<"]">>,
                                            SelectedNode.depth))

\* C30: adding a child to the selected container: an Object gets a child
\* with key "new_key" and its children are in ascending key order
\* afterwards; an Array of n children gets a last child with key "[n]"; the
\* container is expanded, the document dirty, and cursor.selected still
\* denotes the container row.
C30_AddChildToContainer ==
    (running /\ is_expandable(SelectedNode)) =>
        /\ InVi => Added(Pressed(Char("o")).app)
        /\ InBasic => Added(Pressed(Key("Insert")).app)

\* new_key was added to the root between "b" and "z"
C30_Witness ==
    /\ message = Msg("Added new key (unsaved)", <<>>)
    /\ dirty
    /\ cursor.selected = 0
    /\ Len(root.value.children) = 3
    /\ root.value.children[2].key = NewKeyText
    /\ root.value.children[3].key = <<"z">>

\* a second entry was appended to the array at "z" with the key [1]
C30_WitnessArray ==
    /\ message = Msg("Added new key (unsaved)", <<>>)
    /\ SelectedNode.value.kind = "Array"
    /\ Len(SelectedNode.value.children) = 2
    /\ SelectedNode.value.children[2].key = <<"[", "1", "]">>

(***************************************************************************)
(* The expanded flag of a node when it is constructed                      *)
(***************************************************************************)
\* The node of a tree at a path
NodeAt(node, p) == navigate_mut(node, p)
\* Every node of the tree has expanded exactly when it is less than 2 deep
ExpandedIffShallow(node) ==
    \A p \in PathsOf(node) : NodeAt(node, p).expanded = (NodeAt(node, p).depth < 2)
Loaded == call.fn = "round_trip" /\ result.stage = "loaded"
AddedTo(kind) == Done("add_child") /\ call.node.value.kind = kind
\* The child add_child constructed: the one more than the children before
\* that is not among them (the last of an Array, the one keyed call.key and
\* not expanded or not there before in an Object).
NewChildren ==
    LET was == call.node.value.children
        now == result.value.value.children
    IN  {i \in 1..Len(now) :
            /\ [j \in 1..(Len(now) - 1) |-> now[IF j < i THEN j ELSE j + 1]] = was
            /\ now[i].value = call.value}

\* C31 as stated: every node has, when constructed by from_config_value or
\* by add_child, expanded = TRUE exactly when its depth is less than 2.
C31_ExpandedIffShallow ==
    /\ Loaded => ExpandedIffShallow(result.node)
    /\ (AddedTo("Object") \/ AddedTo("Array")) =>
          /\ NewChildren # {}
          /\ \A i \in NewChildren :
                LET new == result.value.value.children[i]
                IN  new.expanded = (new.depth < 2)

\* C31 amended: every node constructed by from_config_value has expanded =
\* TRUE exactly when its depth is less than 2; the node constructed by
\* add_child is one level below its container and has expanded = FALSE at
\* every depth.
C31_ExpandedAtConstruction ==
    /\ Loaded => ExpandedIffShallow(result.node)
    /\ (AddedTo("Object") \/ AddedTo("Array")) =>
          /\ NewChildren # {}
          /\ \A i \in NewChildren :
                LET new == result.value.value.children[i]
                IN  /\ new.depth = call.node.depth + 1
                    /\ new.expanded = FALSE

\* A child added to a container at depth 0: depth 1, not expanded.
C31_Witness ==
    /\ AddedTo("Object")
    /\ call.node.depth = 0
    /\ \E i \in NewChildren :
          /\ result.value.value.children[i].depth = 1
          /\ ~result.value.value.children[i].expanded
\* A value loaded with nodes at the depths 0, 1 and 2
C31_WitnessLoaded ==
    /\ Loaded
    /\ \E p \in PathsOf(result.node) : NodeAt(result.node, p).depth = 2

(***************************************************************************)
(* What a save writes                                                      *)
(***************************************************************************)
\* Ctrl+S pressed in the state as it is, with no call of set recorded yet
SavePressed(env) == run_app_step([App EXCEPT !.backend = None], Ctrl("s"), env)
TopLevel == IF root.value.kind = "Object" THEN Range(root.value.children) ELSE {}

\* The text a top-level entry shows and is edited as: of a scalar its
\* text, of an array or object the empty text.
EntryText(node) ==
    CASE node.value.kind = "Null" -> NullText
      [] node.value.kind = "Bool" -> BoolText(node.value.b)
      [] node.value.kind \in {"Number", "String"} -> node.value.text
      [] OTHER -> <<>>

\* The number a text denotes, written out: an integer in decimal without a
\* "+" and without leading zeros; any other number as the shortest decimal
\* that reads back as the same f64, without an exponent; a text that
\* denotes no number as it is.
NumberWritten(t) ==
    IF parse_i64(t) # None THEN i64_to_string(parse_i64(t)[1])
    ELSE IF parse_f64(t) # None THEN f64_to_string(parse_f64(t)[1])
    ELSE t
\* The text written for a top-level entry: the one it shows, but of a Number
\* the number its text denotes.
WrittenText(node) ==
    IF node.value.kind = "Number" THEN NumberWritten(node.value.text) ELSE EntryText(node)

\* What a save does apart from the text it writes: the loop goes on, the
\* tree is left as it was, set is called at most once and with the empty
\* key path; when set returned ok dirty is false and the message is
\* "Saved", when it failed dirty is as it was and the message another.
SaveFrame(r, env) ==
    /\ ~r.quit
    /\ r.app.root = root
    /\ r.app.backend # None =>
          (r.app.backend[1].key = <<>> /\ r.app.backend[1].ok = env.set_ok)
    /\ (r.app.backend # None /\ r.app.backend[1].ok) =>
          (~r.app.dirty /\ r.app.message = Msg("Saved", <<>>))
    /\ (r.app.backend # None /\ ~r.app.backend[1].ok) =>
          (r.app.dirty = dirty /\ r.app.message # Msg("Saved", <<>>))

\* C32 as stated: a save calls the backend's set at most once, with the
\* empty key path and the scalar text of one top-level entry of the root
\* object (the empty text for an array or object) and nothing of any other
\* entry; when set returned ok, dirty is false and the message is "Saved".
C32_SaveWritesEntryText ==
    (running /\ InBasic) =>
        \A env \in Envs :
            /\ SaveFrame(SavePressed(env), env)
            /\ SavePressed(env).app.backend # None =>
                  \E entry \in TopLevel :
                      SavePressed(env).app.backend[1].value = EntryText(entry)

\* C32, amended: ... with the empty key path and, as content, of one
\* top-level entry of the root object: the text of a Null, Bool or String,
\* the empty text for an array or object, and for a Number the number its
\* text denotes written out anew (an integer in decimal, any other number as
\* the shortest decimal that reads back), which is the entry's text only
\* when that is how the text was written; nothing of any other entry; when
\* set returned ok, dirty is false and the message is "Saved".
C32_SaveWritesOneEntry ==
    (running /\ InBasic) =>
        \A env \in Envs :
            /\ SaveFrame(SavePressed(env), env)
            /\ SavePressed(env).app.backend # None =>
                  \E entry \in TopLevel :
                      SavePressed(env).app.backend[1].value = WrittenText(entry)

\* Saved with a = 1.0 as typed: the text written is "1".
C32_Witness ==
    /\ InBasic /\ ~dirty /\ message = Msg("Saved", <<>>)
    /\ \E entry \in TopLevel : entry.value = VNumber(<<"1", ".", "0">>)
    /\ backend = Some([key |-> <<>>, value |-> <<"1">>, ok |-> TRUE])
\* ... and under the other iteration order the empty text of the array z
C32_WitnessContainer ==
    /\ InBasic /\ ~dirty /\ message = Msg("Saved", <<>>)
    /\ \E entry \in TopLevel : entry.value = VNumber(<<"1", ".", "0">>)
    /\ backend = Some([key |-> <<>>, value |-> <<>>, ok |-> TRUE])
\* ... and a Null, a Bool and a String written as they show
C32_WitnessNull ==
    /\ InBasic /\ ~dirty
    /\ \E entry \in TopLevel : entry.value = VNull
    /\ backend = Some([key |-> <<>>, value |-> NullText, ok |-> TRUE])
C32_WitnessBool ==
    /\ InBasic /\ ~dirty
    /\ \E entry \in TopLevel : entry.value = VBool(FALSE)
    /\ backend = Some([key |-> <<>>, value |-> BoolText(FALSE), ok |-> TRUE])
C32_WitnessString ==
    /\ InBasic /\ ~dirty
    /\ \E entry \in TopLevel : entry.value = VString(<<"1", ".", ".">>)
    /\ backend = Some([key |-> <<>>, value |-> <<"1", ".", ".">>, ok |-> TRUE])
\* ... and a failed set
C32_WitnessFailed ==
    /\ InBasic /\ dirty /\ message = Msg("Save failed: {}", <<>>)
    /\ backend = Some([key |-> <<>>, value |-> <<"0", ".", "1">>, ok |-> FALSE])

(***************************************************************************)
(* The keys of Command state (SpecSearch)                                  *)
(***************************************************************************)
\* r did not end the loop and left the tree, the dirty flag, the cursor and
\* the search state as they are
CommandFrame(r) ==
    /\ ~r.quit
    /\ r.app.root = root /\ r.app.dirty = dirty
    /\ r.app.cursor = cursor /\ r.app.search = search
LeftToNormal(r) == r.app.ui_state = "Normal" /\ r.app.command_buffer = <<>>
Popped(r) ==
    /\ r.app.ui_state = "Command"
    /\ r.app.command_buffer = SubSeq(command_buffer, 1, Len(command_buffer) - 1)

\* C33: in Command state Backspace removes the last character typed while
\* there is one after the sigil and otherwise leaves for Normal state with
\* the buffer cleared; Esc leaves for Normal state with the buffer cleared
\* whatever it holds; Enter leaves for Normal state.  Backspace and Esc
\* change neither the tree, the dirty flag, the cursor nor the search state
\* and do not end the loop.
C33_CommandLineKeys ==
    (running /\ InCommand) =>
        /\ CommandFrame(Pressed(Key("Backspace")))
        /\ IF Len(command_buffer) > 1
           THEN Popped(Pressed(Key("Backspace")))
           ELSE LeftToNormal(Pressed(Key("Backspace")))
        /\ CommandFrame(Pressed(Key("Esc")))
        /\ LeftToNormal(Pressed(Key("Esc")))
        /\ Pressed(Key("Enter")).app.ui_state = "Normal"

\* Normal state with the buffer cleared after a search was submitted (Enter
\* leaves the buffer) on a tree that was changed: Command state was entered
\* again and left by Esc or Backspace, the results still there.
C33_Witness ==
    /\ running /\ ui_state = "Normal" /\ command_buffer = <<>>
    /\ dirty
    /\ search.results # <<>>
\* Command state with a character after the sigil, results and a changed tree
C33_WitnessTyped ==
    /\ running /\ InCommand /\ Len(command_buffer) > 1
    /\ dirty /\ search.results # <<>> /\ cursor.selected > 0

(***************************************************************************)
(* The line editor of Edit state (SpecLine)                                *)
(***************************************************************************)
\* C34: in Edit state, from every entry point and after any keys of the
\* line editor, 0 <= edit.cursor <= the length of edit.buffer; Backspace
\* with the cursor at 0 and Delete with the cursor at the end change
\* nothing.
C34_EditCursorInBuffer ==
    (running /\ InEdit) =>
        /\ 0 <= edit.cursor /\ edit.cursor <= Len(edit.buffer)
        /\ edit.cursor = 0 => Pressed(Key("Backspace")) = Stay(Cleared)
        /\ edit.cursor = Len(edit.buffer) => Pressed(Key("Delete")) = Stay(Cleared)

\* A word edit (cw) with characters typed, the cursor at the end
C34_Witness ==
    /\ running /\ InEdit
    /\ edit.word_range # None
    /\ Len(edit.buffer) >= 3 /\ edit.cursor = Len(edit.buffer)
    /\ "z" \in Range(edit.buffer)
\* A whole-field edit entered at the end (a), the cursor moved to the start
C34_WitnessStart ==
    /\ running /\ InEdit
    /\ edit.word_range = None /\ ~edit.editing_key
    /\ edit.buffer = <<"a", "b">> /\ edit.cursor = 0

(***************************************************************************)
(* The lookups by path (Spec)                                              *)
(***************************************************************************)
\* navigate_mut(node, path) resolves: every index of the path is within the
\* children of a container (children_mut().unwrap()[idx] neither unwraps
\* None nor indexes out of range).
RECURSIVE Resolves(_, _)
Resolves(node, path) ==
    \/ path = <<>>
    \/ /\ children(node) # None
       /\ Head(path) < Len(node.value.children)
       /\ Resolves(node.value.children[Head(path) + 1], Tail(path))

\* C35: the path of every row of the projection of the current tree, from
\* which each operation takes the path it looks up, resolves in that tree
\* to the node the row shows; so does the path of its parent, in which
\* delete_current removes the child at the path's last index.
C35_PathsResolve ==
    \A i \in 1..Len(flattened(App)) :
        LET row == flattened(App)[i]
        IN  /\ Resolves(root, row.path)
            /\ FlatNode(navigate_mut(root, row.path), row.path) = row
            /\ row.path # <<>> =>
                  /\ Resolves(root, SubSeq(row.path, 1, Len(row.path) - 1))
                  /\ remove_child_ok(navigate_mut(root, SubSeq(row.path, 1, Len(row.path) - 1)),
                                     row.path[Len(row.path)])

\* After a row was deleted and one added, a row two levels down selected
C35_Witness ==
    /\ dirty
    /\ cursor.selected < Len(flattened(App))
    /\ Len(SelectedPath) = 2
    /\ SelectedPath[2] > 0
    /\ \E i \in 1..Len(flattened(App)) : flattened(App)[i].key = NewKeyText

(***************************************************************************)
(* The pending operator (SpecLine)                                         *)
(***************************************************************************)
\* C36: a pending operator exists only in Normal state of the modal
\* keymap: in Command state, in Edit state and in the linear keymap
\* pending_op is empty; while pending_op is set the motion has at most one
\* character, and while it is empty the motion is empty.
C36_PendingOnlyInViNormal ==
    /\ (ui_state \in {"Command", "Edit"} \/ input_mode = "Basic") =>
          operator.pending_op = None
    /\ operator.pending_op # None => Len(operator.motion) <= 1
    /\ operator.pending_op = None => operator.motion = <<>>

\* c, then i: the operator pending with a motion of one character
C36_Witness ==
    /\ InPending
    /\ operator.pending_op = Some("c")
    /\ operator.motion = <<"i">>
\* ciw completed: a word edit, nothing pending
C36_WitnessFired ==
    /\ InEdit /\ input_mode = "Vi"
    /\ edit.word_range # None
    /\ operator = OperatorState_default

(***************************************************************************)
(* Command state and its buffer (SpecLine)                                 *)
(***************************************************************************)
Sigils == {"/", ":"}
\* In Command state the buffer starts with a sigil
SigilFirst == InCommand => (command_buffer # <<>> /\ Head(command_buffer) \in Sigils)
\* The steps into, within and out of Command state
EntersCommand == ui_state # "Command" /\ ui_state' = "Command"
StaysInCommand == ui_state = "Command" /\ ui_state' = "Command"
LeavesCommand == ui_state = "Command" /\ ui_state' # "Command"

\* C37: in Command state command_buffer is not empty and its first
\* character is the sigil it was opened with, / or : (on entry the buffer
\* is the sigil alone, and the first character stays while in Command
\* state); Command state is entered only from Normal state and left only
\* for Normal state, never to or from Edit state.
C37_CommandBufferHasSigil ==
    /\ []SigilFirst
    /\ [][/\ EntersCommand =>
               (ui_state = "Normal" /\ Len(command_buffer') = 1
                                    /\ command_buffer'[1] \in Sigils)
          /\ StaysInCommand => Head(command_buffer') = Head(command_buffer)
          /\ LeavesCommand => ui_state' = "Normal"]_vars

\* Command state opened with / on a tree an edit changed, a character typed;
\* and opened with :
C37_Witness ==
    /\ running /\ InCommand
    /\ command_buffer = <<"/", "z">>
    /\ message = None /\ dirty
C37_WitnessColon ==
    /\ running /\ InCommand /\ input_mode = "Vi"
    /\ command_buffer = <<":", "z">>

(***************************************************************************)
(* The keys of the children of an Object (SpecAdd)                         *)
(***************************************************************************)
\* The children of an Object node have pairwise distinct keys, and the map
\* to_config_value collects has an entry for each of them
KeysDistinct(node) ==
    node.value.kind = "Object" =>
        /\ \A i, j \in 1..Len(node.value.children) :
              i # j => node.value.children[i].key # node.value.children[j].key
        /\ Cardinality(DOMAIN to_config_value(node).map) = Len(node.value.children)

\* C38: in every reachable state the children of every Object node have
\* pairwise distinct keys, so that to_config_value keeps one entry per child.
C38_ObjectKeysDistinct ==
    \A p \in PathsOf(root) : KeysDistinct(NodeAt(root, p))

(***************************************************************************)
(* The frame of the keys of Edit state (SpecLine)                          *)
(***************************************************************************)
\* The keys of Edit state other than Enter and Esc: those of the line
\* editor, characters with and without modifiers, and keys it ignores
LineEditorKeys ==
    {Key(c) : c \in {"Backspace", "Delete", "Left", "Right", "Home", "End",
                     "Up", "Down", "Tab", "PageDown", "Insert", "F1", "F3"}}
    \cup {Char(c) : c \in {"z", "j", "q", ":", "/", " "}}
    \cup {Ctrl("s"), Ctrl("f"), Ctrl("d"), Shift("g")}
\* r did not end the loop and differs from the App as it is (the loop
\* cleared the message) in edit.buffer and edit.cursor at most
OnlyBufferAndCursor(r) ==
    /\ ~r.quit
    /\ r.app = [Cleared EXCEPT !.edit.buffer = r.app.edit.buffer,
                               !.edit.cursor = r.app.edit.cursor]
\* r left Edit state with the tree changed nowhere but at the selected row
WroteSelectedRow(r) ==
    /\ r.app.ui_state = "Normal"
    /\ r.app.cursor = cursor
    /\ r.app.root = replace_at(root, SelectedPath, NodeAt(r.app.root, SelectedPath))

\* C39: in Edit state every key other than Enter and Esc changes edit.buffer
\* and edit.cursor alone (the tree, dirty, the cursor, the search state and
\* ui_state stay) and does not end the loop; Enter then writes to the row
\* selected, which is the one selected when the edit started.
C39_EditKeysFrame ==
    (running /\ InEdit) =>
        /\ \A key \in LineEditorKeys : OnlyBufferAndCursor(Pressed(key))
        /\ cursor.selected < Len(flattened(App)) => WroteSelectedRow(Pressed(Key("Enter")))

\* An edit of the value of row 1, a character typed, while the tree is
\* changed and a search has results
C39_Witness ==
    /\ running /\ InEdit
    /\ cursor.selected = 1 /\ ~edit.editing_key
    /\ "z" \in Range(edit.buffer)
    /\ dirty /\ search.results # <<>>

(***************************************************************************)
(* An edit committed as it started (SpecScalar)                            *)
(***************************************************************************)
\* A whole-field edit of the value of the selected row whose buffer is the
\* text the edit started with
EditUntouched ==
    /\ running /\ InEdit
    /\ ~edit.editing_key /\ edit.word_range = None
    /\ cursor.selected < Len(flattened(App))
    /\ edit.buffer = editable_value(SelectedNode)[1]
\* The value of the node at path p after r
ValueAfter(r, p) == NodeAt(r.app.root, p).value

\* C40: committing a whole-field edit of a scalar row with the buffer as the
\* edit started it leaves the node's value as it was, type and text, for
\* every scalar, a String of text "null", "true", "false" or numeric too.
C40_UnchangedEditKeepsValue ==
    EditUntouched => ValueAfter(Pressed(Key("Enter")), SelectedPath) = SelectedNode.value
====
